---- MODULE Spec2Model ----
(***************************************************************************)
(* Model of the VC pitch analysis pipeline: the schema normalizer with the *)
(* currency converter, the scoring engine and the orchestrator's run.      *)
(* Python values are modelled as tagged records, numbers as reduced        *)
(* rationals, and a call that raises as an outcome tagged ok = FALSE.      *)
(***************************************************************************)
EXTENDS Integers, Sequences, FiniteSets, TLC

VARIABLES
    \* schema_normalizer.py: one call of SchemaNormalizer.normalize
    nraw,               \* the raw document handed to normalize
    nout,               \* its outcome: Ok(canonical) or Raise(kind); NotCalled before
    \* scoring_engine.py: one call of ScoringEngine.score
    config_weights,     \* config.get("scoring.weights", {}): the override map
    analyses,           \* analysis_results handed to score
    research,           \* research_results handed to score
    sout,               \* the ScoringResult, NotCalled before
    \* orchestrator.py: one run of Orchestrator._process_pitch_async
    available_agents,   \* self.available_agents
    stored,             \* the document the store holds for the pitch id, or NoDocument
    pc,                 \* position of the run
    raw_data,           \* local raw_data
    normalized_data,    \* local normalized_data
    analysis_results,   \* local analysis_results
    results,            \* self.results
    trace,              \* the stages executed so far, in order
    received,           \* what each invoked provider was handed
    outcome,            \* how the run ended
    \* currency_converter.py: a conversion and the conversion back
    conv_in,            \* amount, from_currency, to_currency and config of the call
    conv_out,           \* its outcome, NotCalled before
    conv_back,          \* the outcome of converting the result back
    \* consistency_checker.py: one call of ConsistencyChecker.check
    check_in,           \* normalized_data, analysis_results and scores handed to check
    check_out,          \* its outcome, NotCalled before
    \* consistency_checker.py: _calculate_consistency_score on a growing list
    issue_list,         \* the issues found so far
    consistency,        \* the consistency score of issue_list
    \* schema_normalizer.py: calls of normalize on one class
    template,           \* SchemaNormalizer.CANONICAL_SCHEMA
    calls,              \* per call: its raw document, what it returned, what the caller holds
    \* config.py: constructions of Config
    default_config,     \* Config.DEFAULT_CONFIG
    instances,          \* per Config constructed: its config_data
    \* schema_validator.py: one call of SchemaValidator.validate
    val_in,             \* the report handed to validate
    val_out,            \* its outcome, NotCalled before
    \* orchestrator.py: two runs of _process_pitch_async on one Orchestrator
    heap,               \* the results dicts created so far
    self_results,       \* self.results: the dict it refers to
    runs                \* per run: its position, its locals and what it returned

nvars == <<nraw, nout>>
svars == <<config_weights, analyses, research, sout>>
ovars == <<available_agents, stored, pc, raw_data, normalized_data,
           analysis_results, results, trace, received, outcome>>
cvars == <<conv_in, conv_out, conv_back>>
kvars == <<check_in, check_out>>
ivars == <<issue_list, consistency>>
tvars == <<template, calls>>
gvars == <<default_config, instances>>
vvars == <<val_in, val_out>>
rvars == <<heap, self_results, runs>>
yvars == <<tvars, gvars, vvars, rvars>>
xvars == <<cvars, kvars, ivars, yvars>>
vars == <<nvars, svars, ovars, xvars>>

-----------------------------------------------------------------------------
(* Python values *)

Null == [t |-> "null"]
Str(s) == [t |-> "str", s |-> s]
List(l) == [t |-> "list", l |-> l]
Dict(d) == [t |-> "dict", d |-> d]
EmptyDict == Dict(<<>>)
EmptyList == List(<<>>)

RECURSIVE GCD(_, _)
GCD(a, b) == IF b = 0 THEN a ELSE GCD(b, a % b)

Abs(n) == IF n < 0 THEN -n ELSE n

\* a number n/d in lowest terms with a positive denominator
Rat(n, d) ==
    LET g == GCD(Abs(n), Abs(d))
        s == IF d < 0 THEN -1 ELSE 1
    IN  [t |-> "num", num |-> s * (n \div g), den |-> s * (d \div g)]

Num(n) == Rat(n, 1)

\* a call's outcome: a returned value or a raised exception
Ok(v) == [ok |-> TRUE, v |-> v]
Raise(e) == [ok |-> FALSE, e |-> e]
NotCalled == [ok |-> FALSE, e |-> "not called"]

\* bool(v)
Truthy(v) ==
    CASE v.t = "null" -> FALSE
      [] v.t = "str" -> v.s # ""
      [] v.t = "num" -> v.num # 0
      [] v.t = "list" -> Len(v.l) > 0
      [] v.t = "dict" -> DOMAIN v.d # {}

\* dict.get(k, default) and dict.get(k)
PyGetD(o, k, default) == IF k \in DOMAIN o.d THEN o.d[k] ELSE default
PyGet(o, k) == PyGetD(o, k, Null)

\* a or b
PyOr(a, b) == IF Truthy(a) THEN a ELSE b

\* the first raised outcome of a sequence of outcomes, in order
RECURSIVE FirstRaise(_)
FirstRaise(outs) ==
    IF outs = <<>> THEN Ok(Null)
    ELSE IF ~Head(outs).ok THEN Head(outs)
    ELSE FirstRaise(Tail(outs))

-----------------------------------------------------------------------------
(* Dotted paths are strings: '.'.join, str.endswith and str.split          *)

\* '.'.join(path) for a list of keys
RECURSIVE Join(_)
Join(path) ==
    IF path = <<>> THEN ""
    ELSE IF Len(path) = 1 THEN path[1]
    ELSE path[1] \o "." \o Join(Tail(path))

\* p.endswith(q)
EndsWith(p, q) ==
    /\ Len(q) <= Len(p)
    /\ SubSeq(p, Len(p) - Len(q) + 1, Len(p)) = q

\* s.split('.'): the list of segments, from position i with segment start b
RECURSIVE SplitFrom(_, _, _)
SplitFrom(s, b, i) ==
    IF i > Len(s) THEN <<SubSeq(s, b, Len(s))>>
    ELSE IF SubSeq(s, i, i) = "." THEN <<SubSeq(s, b, i - 1)>> \o SplitFrom(s, i + 1, i + 1)
    ELSE SplitFrom(s, b, i + 1)

Split(s) == SplitFrom(s, 1, 1)

-----------------------------------------------------------------------------
(* currency_converter.py *)

USD == Str("USD")

\* Config.DEFAULT_CONFIG["currency"]["rates"]
ConfigDefaultRates == [INR |-> Rat(87, 1), EUR |-> Rat(85, 100), GBP |-> Rat(73, 100)]

\* no config object (config=None)
NoConfig == [none |-> TRUE]

\* a Config whose "currency.rates" is the map r
ConfigWithRates(r) == [rates |-> r]

DefaultConfig == ConfigWithRates(ConfigDefaultRates)

\* the built-in table of _get_currency_rates, overridden per key by the config's
_get_currency_rates(config) ==
    LET default_rates ==
            [USD |-> Rat(1, 1), EUR |-> Rat(85, 100), GBP |-> Rat(73, 100),
             JPY |-> Rat(110, 1), CNY |-> Rat(645, 100), INR |-> Rat(75, 1),
             AUD |-> Rat(135, 100), CAD |-> Rat(125, 100), SGD |-> Rat(135, 100),
             CHF |-> Rat(92, 100)]
    IN  IF config # NoConfig /\ DOMAIN config.rates # {}
        THEN config.rates @@ default_rates
        ELSE default_rates

\* a fallback that takes every currency at par with USD
ParRate(currency) == Rat(1, 1)

\* the fallback table, with the fixed rate for a currency it does not hold
_get_default_rate(currency) ==
    LET default_rates ==
            [USD |-> Rat(1, 1), EUR |-> Rat(85, 100), GBP |-> Rat(73, 100),
             JPY |-> Rat(110, 1), CNY |-> Rat(645, 100), INR |-> Rat(75, 1),
             AUD |-> Rat(135, 100), CAD |-> Rat(125, 100), SGD |-> Rat(135, 100),
             CHF |-> Rat(92, 100), HKD |-> Rat(78, 10), NZD |-> Rat(14, 10),
             SEK |-> Rat(86, 10), KRW |-> Rat(1150, 1), NOK |-> Rat(85, 10),
             MXN |-> Rat(20, 1), BRL |-> Rat(53, 10), RUB |-> Rat(75, 1),
             ZAR |-> Rat(15, 1), TRY |-> Rat(86, 10)]
    IN  IF currency.t = "str" /\ currency.s \in DOMAIN default_rates
        THEN default_rates[currency.s]
        ELSE Rat(50, 1)

\* the rate used for a currency: Raise for a key that cannot be hashed
RateOf(currency, rates) ==
    IF currency.t \in {"list", "dict"} THEN Raise("TypeError")
    ELSE IF currency.t = "str" /\ currency.s \in DOMAIN rates THEN Ok(rates[currency.s])
    ELSE Ok(_get_default_rate(currency))

\* amount / rate
PyDiv(amount, rate) ==
    IF amount.t # "num" THEN Raise("TypeError")
    ELSE IF rate.num = 0 THEN Raise("ZeroDivisionError")
    ELSE Ok(Rat(amount.num * rate.den, amount.den * rate.num))

\* amount * rate (a number times a number)
PyMul(amount, rate) ==
    IF amount.t # "num" THEN Raise("TypeError")
    ELSE Ok(Rat(amount.num * rate.num, amount.den * rate.den))

\* outcome / rate and outcome * rate, an outcome that raised passing through
DivByRate(amount, rate) == IF rate.ok THEN PyDiv(amount, rate.v) ELSE rate
MulByRate(amount, rate) == IF rate.ok THEN PyMul(amount, rate.v) ELSE rate

\* the amount in USD
ToBase(amount, from_currency, rates) ==
    IF from_currency # USD
    THEN DivByRate(amount, RateOf(from_currency, rates))
    ELSE Ok(amount)

\* the USD amount in the target currency at the fallback rate, whatever rates holds
FromBaseAtFallback(amount_usd, to_currency, rates) ==
    IF ~amount_usd.ok THEN amount_usd
    ELSE IF to_currency # USD
    THEN PyMul(amount_usd.v, _get_default_rate(to_currency))
    ELSE amount_usd

\* the USD amount in the target currency
FromBase(amount_usd, to_currency, rates) ==
    IF ~amount_usd.ok THEN amount_usd
    ELSE IF to_currency # USD
    THEN MulByRate(amount_usd.v, RateOf(to_currency, rates))
    ELSE amount_usd

convert_currency(amount, from_currency, to_currency, config) ==
    IF amount = Null THEN Ok(Null)
    ELSE IF from_currency = to_currency THEN Ok(amount)
    ELSE FromBase(ToBase(amount, from_currency, _get_currency_rates(config)),
                  to_currency, _get_currency_rates(config))

-----------------------------------------------------------------------------
(* schema_normalizer.py *)

DefaultAmount == Dict([value |-> Null, currency |-> USD, raw |-> Null])

CANONICAL_SCHEMA ==
    Dict([
        metadata |-> Dict([company_name |-> Null, tagline |-> Null, website |-> Null,
                           date |-> Null, source |-> Null, client_id |-> Null,
                           original_file_name |-> Null]),
        contact |-> Dict([email |-> Null, phone |-> Null, address |-> Null]),
        team |-> Dict([founders |-> EmptyList, experience |-> Null]),
        market |-> Dict([tam |-> DefaultAmount, sam |-> DefaultAmount, som |-> DefaultAmount,
                         cagr |-> Null, domain |-> Null, sub_domain |-> Null]),
        positioning |-> Dict([problem_statement |-> Null, solution |-> Null, usp |-> Null,
                              competitors |-> EmptyList]),
        finance |-> Dict([arr |-> DefaultAmount, mrr |-> DefaultAmount,
                          total_revenue |-> DefaultAmount, gross_profit |-> DefaultAmount,
                          ebita |-> DefaultAmount, year_on_year_growth |-> Null,
                          revenues |-> EmptyList, runway |-> Null]),
        fundraise |-> Dict([ask |-> DefaultAmount, valuation |-> DefaultAmount,
                            funds_raised |-> DefaultAmount]),
        gtm |-> Dict([revenue_streams |-> EmptyList, business_model |-> Null,
                      channels |-> EmptyList]),
        units |-> Dict([base_currency |-> USD]),
        extras |-> EmptyDict])

\* a copy equal to the template
_deep_copy(obj) == obj

\* value converted to USD when it exists and its currency is another one
ToUSD(value, currency, config) ==
    IF value # Null /\ Truthy(currency) /\ currency # USD
    THEN convert_currency(value, currency, USD, config)
    ELSE Ok(value)

\* no audit record at all
RawDropped(value, currency) == Null

\* the pre-conversion pair kept for audit
RawOf(value, currency) ==
    IF value # Null THEN Dict([value |-> value, currency |-> currency]) ELSE Null

\* the normalized amount of a converted value, a raised conversion passing through
AmountOf(value_usd, raw) ==
    IF ~value_usd.ok THEN value_usd
    ELSE Ok(Dict([value |-> value_usd.v, currency |-> USD, raw |-> raw]))

_normalize_currency(currency_data, config) ==
    IF ~Truthy(currency_data) \/ currency_data.t # "dict"
    THEN Ok(Dict([value |-> Null, currency |-> USD, raw |-> Null]))
    ELSE AmountOf(ToUSD(PyGet(currency_data, "value"),
                        PyGetD(currency_data, "currency", USD), config),
                  RawOf(PyGet(currency_data, "value"),
                        PyGetD(currency_data, "currency", USD)))

\* the dict items of a sequence, in order
RECURSIVE DictsOf(_)
DictsOf(items) ==
    IF items = <<>> THEN <<>>
    ELSE IF Head(items).t = "dict" THEN <<Head(items)>> \o DictsOf(Tail(items))
    ELSE DictsOf(Tail(items))

\* the items of "for x in v" that pass isinstance(x, dict): a string is
\* visited by character and a dict by key, a number or None is not iterable
IterDicts(v) ==
    CASE v.t = "list" -> Ok(DictsOf(v.l))
      [] v.t \in {"str", "dict"} -> Ok(<<>>)
      [] OTHER -> Raise("TypeError")

\* the four fields kept of each dict item
FoundersOf(items) ==
    IF ~items.ok THEN items
    ELSE Ok(List([i \in 1..Len(items.v) |->
                    Dict([name |-> PyGet(items.v[i], "name"),
                          title |-> PyGet(items.v[i], "title"),
                          linkedin |-> PyGet(items.v[i], "linkedin"),
                          bio |-> PyGet(items.v[i], "bio")])]))

_normalize_founders(founders) == FoundersOf(IterDicts(founders))

\* period strings of the documents, in the order str.__lt__ gives them
PeriodOrder == <<"2021", "2022", "2023", "2023-24", "FY22", "Q1">>

StrRank(s) == CHOOSE i \in 1..Len(PeriodOrder) : PeriodOrder[i] = s

\* a < b raises TypeError unless both are strings or both are numbers
Comparable(a, b) ==
    \/ a.t = "str" /\ b.t = "str"
    \/ a.t = "num" /\ b.t = "num"

PyLess(a, b) ==
    IF a.t = "num" THEN a.num * b.den < b.num * a.den
    ELSE StrRank(a.s) < StrRank(b.s)

\* x inserted into the sorted sequence s after every item not greater than it
RECURSIVE InsertByPeriod(_, _)
InsertByPeriod(s, x) ==
    IF s = <<>> THEN <<x>>
    ELSE IF PyLess(x.d.period, Head(s).d.period) THEN <<x>> \o s
    ELSE <<Head(s)>> \o InsertByPeriod(Tail(s), x)

RECURSIVE StableSort(_)
StableSort(s) ==
    IF s = <<>> THEN <<>>
    ELSE InsertByPeriod(StableSort(SubSeq(s, 1, Len(s) - 1)), s[Len(s)])

\* list.sort(key=period) inside try/except TypeError: a comparison of two
\* neighbours that raises leaves the list as it was (lists of up to 3 items)
SortByPeriod(s) ==
    IF \A i \in 1..(Len(s) - 1) : Comparable(s[i].d.period, s[i + 1].d.period)
    THEN StableSort(s)
    ELSE s

\* the normalized entry of a converted value, a raised conversion passing through
RevenueOf(period, value_usd, raw) ==
    IF ~value_usd.ok THEN value_usd
    ELSE Ok(Dict([period |-> period, value |-> value_usd.v,
                  currency |-> USD, raw |-> raw]))

\* one entry of _normalize_revenues
NormalizeRevenue(revenue, config) ==
    RevenueOf(PyOr(PyOr(PyGet(revenue, "year"), PyGet(revenue, "quarter")),
                   PyGet(revenue, "period")),
              ToUSD(PyGet(revenue, "value"), PyGetD(revenue, "currency", USD), config),
              RawOf(PyGet(revenue, "value"), PyGetD(revenue, "currency", USD)))

\* the entries sorted, unless one of them raised
SortedRevenues(outs) ==
    IF ~FirstRaise(outs).ok THEN FirstRaise(outs)
    ELSE Ok(List(SortByPeriod([i \in 1..Len(outs) |-> outs[i].v])))

\* the entries of the dict items, in order
RevenuesOf(items, config) ==
    IF ~items.ok THEN items
    ELSE SortedRevenues([i \in 1..Len(items.v) |-> NormalizeRevenue(items.v[i], config)])

_normalize_revenues(revenues, config) == RevenuesOf(IterDicts(revenues), config)

\* every dotted path of a nested dict/list structure; a list adds no segment
RECURSIVE _get_paths(_, _)
_get_paths(obj, current_path) ==
    IF obj.t = "dict"
    THEN UNION { {Join(Append(current_path, k))} \cup
                 (IF obj.d[k].t \in {"dict", "list"}
                  THEN _get_paths(obj.d[k], Append(current_path, k))
                  ELSE {}) : k \in DOMAIN obj.d }
    ELSE IF obj.t = "list"
    THEN UNION { IF obj.l[i].t \in {"dict", "list"}
                 THEN _get_paths(obj.l[i], current_path)
                 ELSE {} : i \in DOMAIN obj.l }
    ELSE {}

\* the value at a list of keys, None when a step is not a dict holding the key
RECURSIVE _get_by_path(_, _)
_get_by_path(obj, path) ==
    IF path = <<>> THEN obj
    ELSE IF obj.t = "dict" /\ Head(path) \in DOMAIN obj.d
    THEN _get_by_path(obj.d[Head(path)], Tail(path))
    ELSE Null

\* the extraction paths kept as extras: no canonical path ends with them and
\* their value is not None
ExtrasPaths(extraction, canonical_paths, extraction_paths) ==
    { path \in extraction_paths :
        /\ ~\E p \in canonical_paths : EndsWith(p, path)
        /\ _get_by_path(extraction, Split(path)) # Null }

_extract_extras(extraction, canonical) ==
    Dict([path \in ExtrasPaths(extraction, _get_paths(canonical, <<>>),
                               _get_paths(extraction, <<>>)) |->
            _get_by_path(extraction, Split(path))])

\* canonical[section][field] = value
SetField(canonical, section, field, value) ==
    Dict([canonical.d EXCEPT ![section] = Dict([@.d EXCEPT ![field] = value])])

\* the canonical object of normalize once every field is mapped, before extras
Mapped(raw_doc, extraction, founders, revenues, money) ==
    Dict([
        metadata |-> Dict([company_name |-> PyGet(extraction, "company_name"),
                           tagline |-> PyGet(extraction, "tagline"),
                           website |-> PyGet(extraction, "website"),
                           date |-> PyGet(extraction, "date"),
                           source |-> PyGet(raw_doc, "source"),
                           client_id |-> PyGet(raw_doc, "clientId"),
                           original_file_name |-> PyGet(raw_doc, "originalFileName")]),
        contact |-> Dict([email |-> PyGet(extraction, "email"),
                          phone |-> PyGet(extraction, "phone"),
                          address |-> PyGet(extraction, "address")]),
        team |-> Dict([founders |-> founders,
                       experience |-> PyGet(extraction, "experience")]),
        market |-> Dict([tam |-> money.tam, sam |-> money.sam, som |-> money.som,
                         cagr |-> PyGet(extraction, "cagr"),
                         domain |-> PyGet(extraction, "domain"),
                         sub_domain |-> PyGet(extraction, "sub_domain")]),
        positioning |-> Dict([problem_statement |-> PyGet(extraction, "problem_statement"),
                              solution |-> PyGet(extraction, "solution"),
                              usp |-> PyGet(extraction, "USP"),
                              competitors |-> PyGetD(extraction, "competitors", EmptyList)]),
        finance |-> Dict([arr |-> money.arr, mrr |-> money.mrr,
                          total_revenue |-> money.total_revenue,
                          gross_profit |-> money.gross_profit,
                          ebita |-> money.ebita,
                          year_on_year_growth |-> PyGet(extraction, "year_on_year_growth"),
                          revenues |-> revenues,
                          runway |-> PyGet(extraction, "runway")]),
        fundraise |-> Dict([ask |-> money.ask, valuation |-> money.valuation,
                            funds_raised |-> money.funds_raised]),
        gtm |-> Dict([revenue_streams |-> PyGetD(extraction, "revenue_streams", EmptyList),
                      business_model |-> PyGet(extraction, "business_model"),
                      channels |-> PyGetD(extraction, "channels", EmptyList)]),
        units |-> _deep_copy(CANONICAL_SCHEMA).d.units,
        extras |-> _deep_copy(CANONICAL_SCHEMA).d.extras])

\* the monetary fields, in the order normalize maps them
MoneyFields == <<"tam", "sam", "som", "arr", "mrr", "total_revenue", "gross_profit",
                 "ebita", "ask", "valuation", "funds_raised">>

\* the mapped canonical object with its extras, and the base currency set
WithExtras(extraction, canonical) ==
    SetField(Dict([canonical.d EXCEPT !.extras = _extract_extras(extraction, canonical)]),
             "units", "base_currency", USD)

\* the calls of normalize in source order: the first that raises ends it
Assemble(raw_doc, extraction, founders, cur, revenues, bad) ==
    IF ~bad.ok THEN bad
    ELSE Ok(WithExtras(extraction,
                       Mapped(raw_doc, extraction, founders.v, revenues.v,
                              [k \in DOMAIN cur |-> cur[k].v])))

NormalizeExtraction(raw_doc, extraction, founders, cur, revenues) ==
    Assemble(raw_doc, extraction, founders, cur, revenues,
             FirstRaise(<<founders, cur.tam, cur.sam, cur.som, cur.arr, cur.mrr,
                          cur.total_revenue, cur.gross_profit, cur.ebita,
                          revenues, cur.ask, cur.valuation, cur.funds_raised>>))

\* extraction.get on something that is not a dict raises
MapExtraction(raw_doc, extraction, config) ==
    IF extraction.t # "dict" THEN Raise("AttributeError")
    ELSE NormalizeExtraction(
            raw_doc, extraction,
            _normalize_founders(PyGetD(extraction, "founders", EmptyList)),
            [k \in {MoneyFields[i] : i \in 1..Len(MoneyFields)} |->
                _normalize_currency(PyGet(extraction, k), config)],
            _normalize_revenues(PyGetD(extraction, "revenues", EmptyList), config))

normalize(raw_doc, config) ==
    MapExtraction(raw_doc, PyGetD(raw_doc, "extraction", EmptyDict), config)

-----------------------------------------------------------------------------
(* One call of SchemaNormalizer.normalize on a bounded raw document *)

MaxKeys == 2

Amount(v, c) == Dict([value |-> v, currency |-> Str(c)])

\* the values a raw document may hold under each key of its extraction
Options(k) ==
    CASE k \in {"tam", "ask"} ->
            {Null, Str("10 million"), Amount(Num(8700), "INR"), Dict([value |-> Num(5)]),
             Amount(Null, "EUR"), Amount(Str("1.2M"), "INR"), Amount(Str("1.2M"), "USD"),
             Dict([value |-> Num(170), currency |-> Str("EUR"), year |-> Num(2024)])}
      [] k = "founders" ->
            {Null, Num(2), Str("Ann"),
             List(<<Dict([name |-> Str("Ann"), title |-> Str("CEO")])>>),
             List(<<Dict([name |-> Str("Bob"), title |-> Null, twitter |-> Str("@bob")]),
                    Str("Cy")>>)}
      [] k = "revenues" ->
            {Null, Num(0),
             List(<<Dict([year |-> Str("2023"), value |-> Num(174), currency |-> Str("INR")]),
                    Dict([period |-> Str("2021"), value |-> Num(100)])>>),
             List(<<Dict([quarter |-> Str("Q1"), value |-> Null, currency |-> Str("EUR")]),
                    Dict([value |-> Num(7), notes |-> Str("est")])>>),
             List(<<Dict([year |-> Num(2022), value |-> Str("n/a"), currency |-> Str("GBP")])>>)}
      [] k = "competitors" ->
            {Null, List(<<Dict([name |-> Str("Rival"), source |-> Str("web")])>>)}
      [] k = "revenue_streams" ->
            {Null, List(<<Str("Retail")>>), List(<<Num(1)>>)}
      [] k = "tagline" -> {Null, Str("Spice Story foods"), Num(7)}
      [] OTHER -> {Null, Str("x")}

ExtractionKeys ==
    {"tam", "ask", "founders", "revenues", "competitors", "revenue_streams", "tagline",
     "company_name", "USP", "usp", "name", "source", "domain", "kpi.nps", "headcount"}

\* the extractions with at most n of the keys ks
Extractions(ks, n) ==
    UNION { { Dict(f) :
                f \in { g \in [S -> UNION { Options(k) : k \in S }] :
                           \A k \in S : g[k] \in Options(k) } } :
            S \in { T \in SUBSET ks : Cardinality(T) <= n } }

\* the raw documents: an extraction that is missing, None, not a dict, or a dict
RawDocs(ks, n) ==
    { Dict([clientId |-> Str("c1")]),
      Dict([clientId |-> Str("c1"), extraction |-> Null]),
      Dict([clientId |-> Str("c1"), extraction |-> Str("scanned text")]) }
    \cup { Dict([clientId |-> Str("c1"), source |-> Str("upload"), extraction |-> e]) :
             e \in Extractions(ks, n) }

Normalize ==
    /\ nout = NotCalled
    /\ nout' = normalize(nraw, DefaultConfig)
    /\ UNCHANGED <<nraw, svars, ovars, xvars>>

-----------------------------------------------------------------------------
(* Arithmetic on numbers *)

RatAdd(a, b) == Rat(a.num * b.den + b.num * a.den, a.den * b.den)
RatMul(a, b) == Rat(a.num * b.num, a.den * b.den)
RatDiv(a, b) == Rat(a.num * b.den, a.den * b.num)
RatLess(a, b) == a.num * b.den < b.num * a.den
RatLeq(a, b) == a.num * b.den <= b.num * a.den
RatMax(a, b) == IF RatLess(a, b) THEN b ELSE a
RatMin(a, b) == IF RatLess(b, a) THEN b ELSE a

\* round(x, 1): the nearest tenth, a tie going to the even tenth
Round1(x) ==
    LET n == x.num * 10
        q == n \div x.den
        r == n - q * x.den
    IN  IF 2 * r < x.den THEN Rat(q, 10)
        ELSE IF 2 * r > x.den THEN Rat(q + 1, 10)
        ELSE IF q % 2 = 0 THEN Rat(q, 10)
        ELSE Rat(q + 1, 10)

\* sum(f[k] for k in S)
RECURSIVE RatSum(_, _)
RatSum(f, S) ==
    IF S = {} THEN Num(0)
    ELSE LET k == CHOOSE k \in S : TRUE
         IN  RatAdd(f[k], RatSum(f, S \ {k}))

-----------------------------------------------------------------------------
(* scoring_engine.py *)

DEFAULT_WEIGHTS ==
    [MarketAnalysis |-> Rat(20, 100), CompetitiveLandscape |-> Rat(15, 100),
     ProductMarketFit |-> Rat(20, 100), Finance |-> Rat(25, 100),
     WhyAnalysis |-> Rat(10, 100), Scalability |-> Rat(10, 100)]

\* the defaults with the entries of known categories replaced by the config's
MergedWeights(cfg_weights) ==
    [category \in DOMAIN DEFAULT_WEIGHTS |->
        IF category \in DOMAIN cfg_weights
        THEN cfg_weights[category]
        ELSE DEFAULT_WEIGHTS[category]]

\* the merged weights used as they are
NotNormalized(weights, total_weight) == weights

\* weights[category] /= total_weight when the total is positive
Normalized(weights, total_weight) ==
    IF RatLess(Num(0), total_weight)
    THEN [category \in DOMAIN weights |-> RatDiv(weights[category], total_weight)]
    ELSE weights

_get_weights(cfg_weights) ==
    Normalized(MergedWeights(cfg_weights),
               RatSum(MergedWeights(cfg_weights), DOMAIN DEFAULT_WEIGHTS))

\* the adjustment a credibility score gives
Adjustment(credibility_score) ==
    IF RatLeq(Num(80), credibility_score) THEN Rat(5, 10)
    ELSE IF RatLeq(Num(50), credibility_score) THEN Num(0)
    ELSE Num(-1)

_adjust_score_with_research(category, category_score, research_results) ==
    IF ~Truthy(research_results) THEN category_score
    ELSE RatMax(Num(1),
                RatMin(Num(10),
                       RatAdd(category_score,
                              Adjustment(PyGetD(PyGetD(research_results, "summary", EmptyDict),
                                                "credibility_score", Num(0))))))

\* an entry whose raw_score holds the weighted score
RawIsWeighted(category_average, adjusted_score, weight) ==
    [raw_score |-> RatMul(adjusted_score, weight),
     adjusted_score |-> adjusted_score,
     weight |-> weight,
     weighted_score |-> RatMul(adjusted_score, weight)]

\* one entry of category_scores
CategoryScore(category_average, adjusted_score, weight) ==
    [raw_score |-> category_average,
     adjusted_score |-> adjusted_score,
     weight |-> weight,
     weighted_score |-> RatMul(adjusted_score, weight)]

\* whether the loop of score gives the category an entry
IsScored(results_in, category) == category \in DOMAIN results_in.d

\* category_scores of score: one entry per weighted category the loop scores
CategoryScores(weights, results_in, research_results) ==
    [category \in { c \in DOMAIN weights : IsScored(results_in, c) } |->
        CategoryScore(PyGetD(results_in.d[category], "category_average", Num(0)),
                      _adjust_score_with_research(
                          category,
                          PyGetD(results_in.d[category], "category_average", Num(0)),
                          research_results),
                      weights[category])]

\* the weighted sum alone, not divided by the weights used
UnweightedTotal(weighted_sum, weights_sum) == weighted_sum

\* the weighted average, 0 when no weight was used
WeightedAverage(weighted_sum, weights_sum) ==
    IF RatLess(Num(0), weights_sum) THEN RatDiv(weighted_sum, weights_sum) ELSE Num(0)

_calculate_overall_score(category_scores) ==
    Round1(WeightedAverage(
        RatSum([c \in DOMAIN category_scores |-> category_scores[c].weighted_score],
               DOMAIN category_scores),
        RatSum([c \in DOMAIN category_scores |-> category_scores[c].weight],
               DOMAIN category_scores)))

\* results_in[category].get("category_average", 0) for a category that is present
AverageOf(results_in, category) ==
    PyGetD(results_in.d[category], "category_average", Num(0))

\* the penalty for the risk category and the bonus for a category at 9 or more
RiskPenalty(results_in) ==
    IF "RiskMitigation" \in DOMAIN results_in.d
    THEN IF RatLeq(AverageOf(results_in, "RiskMitigation"), Num(3)) THEN Num(-1)
         ELSE IF RatLeq(AverageOf(results_in, "RiskMitigation"), Num(5)) THEN Rat(-5, 10)
         ELSE Num(0)
    ELSE Num(0)

Bonus(results_in, category) ==
    IF category \in DOMAIN results_in.d /\ RatLeq(Num(9), AverageOf(results_in, category))
    THEN Rat(5, 10)
    ELSE Num(0)

_apply_overall_adjustments(overall_raw, results_in) ==
    Round1(RatMax(Num(1),
                  RatMin(Num(10),
                         RatAdd(RatAdd(RatAdd(overall_raw, RiskPenalty(results_in)),
                                       Bonus(results_in, "ProductMarketFit")),
                                Bonus(results_in, "MarketAnalysis")))))

\* the result of score for the category scores computed; weights is recorded
\* beside the fields of the ScoringResult to show the weights in use
ScoringResult(weights, category_scores, overall_raw, results_in) ==
    [weights |-> weights,
     category_scores |-> category_scores,
     overall_raw |-> overall_raw,
     overall_adjusted |-> _apply_overall_adjustments(overall_raw, results_in)]

ScoreWith(weights, category_scores, results_in) ==
    ScoringResult(weights, category_scores, _calculate_overall_score(category_scores),
                  results_in)

score(results_in, research_results, cfg_weights) ==
    ScoreWith(_get_weights(cfg_weights),
              CategoryScores(_get_weights(cfg_weights), results_in, research_results),
              results_in)

-----------------------------------------------------------------------------
(* Strings: str.lower, substring test, str.split() on blanks, str() *)

LowerChar(c) ==
    CASE c = "A" -> "a"
      [] c = "B" -> "b"
      [] c = "C" -> "c"
      [] c = "D" -> "d"
      [] c = "E" -> "e"
      [] c = "F" -> "f"
      [] c = "G" -> "g"
      [] c = "H" -> "h"
      [] c = "I" -> "i"
      [] c = "J" -> "j"
      [] c = "K" -> "k"
      [] c = "L" -> "l"
      [] c = "M" -> "m"
      [] c = "N" -> "n"
      [] c = "O" -> "o"
      [] c = "P" -> "p"
      [] c = "Q" -> "q"
      [] c = "R" -> "r"
      [] c = "S" -> "s"
      [] c = "T" -> "t"
      [] c = "U" -> "u"
      [] c = "V" -> "v"
      [] c = "W" -> "w"
      [] c = "X" -> "x"
      [] c = "Y" -> "y"
      [] c = "Z" -> "z"
      [] OTHER -> c

RECURSIVE Lower(_)
Lower(s) ==
    IF Len(s) = 0 THEN ""
    ELSE LowerChar(SubSeq(s, 1, 1)) \o Lower(SubSeq(s, 2, Len(s)))

\* sub in s
Contains(s, sub) ==
    \E i \in 1..(Len(s) - Len(sub) + 1) : SubSeq(s, i, i + Len(sub) - 1) = sub

\* s.split(): the non-empty runs between blanks, from position i with run start b
RECURSIVE WordsFrom(_, _, _)
WordsFrom(s, b, i) ==
    IF i > Len(s)
    THEN IF b <= Len(s) THEN <<SubSeq(s, b, Len(s))>> ELSE <<>>
    ELSE IF SubSeq(s, i, i) = " "
    THEN (IF b < i THEN <<SubSeq(s, b, i - 1)>> ELSE <<>>) \o WordsFrom(s, i + 1, i + 1)
    ELSE WordsFrom(s, b, i + 1)

Words(s) == WordsFrom(s, 1, 1)

\* str(v) as an f-string renders it, for None, strings and whole numbers
PyStr(v) ==
    CASE v.t = "null" -> "None"
      [] v.t = "str" -> v.s
      [] v.t = "num" -> ToString(v.num)

-----------------------------------------------------------------------------
(* orchestrator.py: the helpers of the consolidation step *)

\* the loop over founders looking for a CEO: Ok(the name found, or ceo
\* unchanged) or Raise at the first item that has no get or no string title
RECURSIVE FindCeo(_, _)
FindCeo(founders, ceo) ==
    IF founders = <<>> THEN Ok(ceo)
    ELSE LET founder == Head(founders)
         IN  IF founder.t # "dict" THEN Raise("AttributeError")
             ELSE LET title == PyGetD(founder, "title", Str(""))
                  IN  IF title.t # "str" THEN Raise("AttributeError")
                      ELSE IF Contains(Lower(title.s), "ceo")
                              \/ Contains(Lower(title.s), "founder")
                      THEN Ok(PyGetD(founder, "name", ceo))
                      ELSE FindCeo(Tail(founders), ceo)

\* the items "for x in v" visits, for a list or a string
ItemsOf(v) ==
    IF v.t = "list" THEN v.l
    ELSE [i \in 1..Len(v.s) |-> Str(SubSeq(v.s, i, i))]

\* the CEO of a truthy founders value
CeoOf(founders, ceo) ==
    IF founders.t \notin {"list", "str"} THEN Raise("TypeError")
    ELSE LET found == FindCeo(ItemsOf(founders), ceo)
         IN  IF ~found.ok THEN found
             ELSE IF found.v = ceo /\ ItemsOf(founders)[1].t # "dict"
             THEN Raise("AttributeError")
             ELSE IF found.v = ceo /\ Truthy(PyGet(ItemsOf(founders)[1], "name"))
             THEN Ok(PyGet(ItemsOf(founders)[1], "name"))
             ELSE found

\* any("retail" in stream.lower() for stream in streams): Ok(bool) or Raise at
\* the first item, before a match, that is not a string
RECURSIVE AnyRetail(_)
AnyRetail(streams) ==
    IF streams = <<>> THEN Ok(FALSE)
    ELSE IF Head(streams).t # "str" THEN Raise("AttributeError")
    ELSE IF Contains(Lower(Head(streams).s), "retail") THEN Ok(TRUE)
    ELSE AnyRetail(Tail(streams))

\* the company name after the tagline is looked at
NameFromTagline(tagline, company_name) ==
    IF Truthy(tagline) /\ (~Truthy(company_name) \/ company_name = Str("Unknown Company"))
    THEN IF tagline.t # "str" THEN Raise("AttributeError")
         ELSE IF Len(Words(tagline.s)) >= 2
         THEN Ok(Str(Words(tagline.s)[1] \o " " \o Words(tagline.s)[2]))
         ELSE Ok(company_name)
    ELSE Ok(company_name)

_extract_basic_details(data) ==
    LET metadata == PyGetD(data, "metadata", EmptyDict)
        extraction == PyGetD(data, "extraction", EmptyDict)
        name0 == IF Truthy(metadata)
                 THEN IF metadata.t # "dict" THEN Raise("AttributeError")
                      ELSE Ok(PyGetD(metadata, "company_name", Str("Unknown Company")))
                 ELSE Ok(Str("Unknown Company"))
    IN  IF ~Truthy(data)
        THEN Ok(Dict([name |-> Str("Unknown Company"), domain |-> Str("Technology"),
                      business_model |-> Str("B2B"), CEO |-> Str("Management Team")]))
        ELSE IF ~name0.ok THEN name0
        ELSE IF ~Truthy(extraction)
        THEN Ok(Dict([name |-> name0.v, domain |-> Str("Technology"),
                      business_model |-> Str("B2B"), CEO |-> Str("Management Team")]))
        ELSE IF extraction.t # "dict" THEN Raise("AttributeError")
        ELSE
            LET domain == PyGetD(extraction, "domain", Str("Technology"))
                name1 == NameFromTagline(PyGet(extraction, "tagline"), name0.v)
                founders == PyGetD(extraction, "founders", EmptyList)
                ceo == IF Truthy(founders)
                       THEN CeoOf(founders, Str("Management Team"))
                       ELSE Ok(Str("Management Team"))
                revenue_streams == PyGetD(extraction, "revenue_streams", EmptyList)
                retail == IF Truthy(revenue_streams)
                          THEN IF revenue_streams.t \notin {"list", "str"}
                               THEN Raise("TypeError")
                               ELSE AnyRetail(ItemsOf(revenue_streams))
                          ELSE Ok(FALSE)
                bad == FirstRaise(<<name1, ceo, retail>>)
            IN  IF ~bad.ok THEN bad
                ELSE Ok(Dict([name |-> name1.v, domain |-> domain,
                              business_model |-> IF retail.v THEN Str("B2C") ELSE Str("B2B"),
                              CEO |-> ceo.v]))

\* round(x): the nearest whole number, a tie going to the even one
RoundInt(x) ==
    LET q == x.num \div x.den
        r == x.num - q * x.den
    IN  IF 2 * r < x.den THEN q
        ELSE IF 2 * r > x.den THEN q + 1
        ELSE IF q % 2 = 0 THEN q
        ELSE q + 1

_extract_pros(results_in) ==
    IF ~Truthy(results_in)
    THEN <<"Strong founding team with relevant experience",
           "Attractive market opportunity",
           "Scalable business model">>
    ELSE
        LET market == PyGetD(results_in, "MarketAnalysis", EmptyDict)
            finance == PyGetD(results_in, "Finance", EmptyDict)
            fromMarket ==
                IF Truthy(market) /\ "tam" \in DOMAIN market.d
                   /\ RatLeq(Num(7), PyGetD(market.d.tam, "final_score", Num(0)))
                THEN <<"Attractive market size with strong growth potential">>
                ELSE <<>>
            fromFinance ==
                IF Truthy(finance) /\ "runway" \in DOMAIN finance.d
                   /\ RatLeq(Num(7), PyGetD(finance.d.runway, "final_score", Num(0)))
                THEN <<"Solid financial runway and capital efficiency">>
                ELSE <<>>
            pros == fromMarket \o fromFinance
            additional_pros ==
                <<"Experienced founding team with domain expertise",
                  "Scalable business model with multiple revenue streams",
                  "Clear product differentiation in competitive landscape">>
        IN  pros \o SubSeq(additional_pros, 1, 3 - Len(pros))

_extract_red_flags(results_in) ==
    IF ~Truthy(results_in)
    THEN <<"Limited financial data available for validation",
           "Highly competitive market with established players",
           "Execution risk in scaling operations">>
    ELSE <<"Highly competitive market with established players",
           "Potential regulatory challenges in target markets",
           "Supply chain complexity may impact margins">>

\* the categories of the results that the investment score counts
ScoredCategories(results_in, weights) ==
    { c \in DOMAIN results_in.d :
        c \in DOMAIN weights /\ "category_average" \in DOMAIN results_in.d[c].d }

_calculate_investment_score(results_in) ==
    LET weights == [MarketAnalysis |-> Rat(25, 100), Finance |-> Rat(25, 100),
                    ProductMarketFit |-> Rat(20, 100), Scalability |-> Rat(15, 100),
                    CompetitiveLandscape |-> Rat(15, 100)]
        used == ScoredCategories(results_in, weights)
        total_score == RatSum([c \in used |->
                                  RatMul(results_in.d[c].d.category_average, weights[c])],
                              used)
        total_weight == RatSum(weights, used)
    IN  IF ~Truthy(results_in) THEN 5
        ELSE IF RatLess(Num(0), total_weight)
        THEN RoundInt(RatDiv(total_score, total_weight))
        ELSE 7

_calculate_confidence_score(results_in) ==
    LET total_sections == Cardinality(DOMAIN results_in.d)
        error_sections ==
            Cardinality({ c \in DOMAIN results_in.d : "error" \in DOMAIN results_in.d[c].d })
    IN  IF ~Truthy(results_in) THEN 6
        ELSE RoundInt(RatAdd(Num(5),
                             Rat((total_sections - error_sections) * 5, total_sections)))

_calculate_uniqueness_score(results_in) == 75

_count_validation_points(results_in) ==
    LET count ==
            Cardinality({ ck \in UNION { { <<c, k>> : k \in DOMAIN results_in.d[c].d } :
                                         c \in DOMAIN results_in.d } :
                            LET value == results_in.d[ck[1]].d[ck[2]]
                            IN  value.t = "dict" /\ "validated" \in DOMAIN value.d })
    IN  IF count > 1 THEN count ELSE 1

_estimate_processing_time(agents) ==
    IF Cardinality(agents) <= 2 THEN "2-5 minutes"
    ELSE IF Cardinality(agents) <= 5 THEN "5-10 minutes"
    ELSE "10-15 minutes"

_generate_error_response(error_message) ==
    Dict([error |-> Str(error_message), status |-> Str("failed"),
          metadata |-> Dict([generated_at |-> Str("now"),
                             analysis_version |-> Str("1.0")])])

-----------------------------------------------------------------------------
(* orchestrator.py: one run of Orchestrator._process_pitch_async *)

MaxOrchKeys == 2

PitchId == "p1"

\* the agent lists _initialize_agents can leave: a failed import or
\* construction of the fetcher or the normalizer ends the whole initialization,
\* that of an analysis agent only skips that agent
AgentSets ==
    { {},
      {"mongo_fetcher"},
      {"mongo_fetcher", "schema_normalizer"},
      {"mongo_fetcher", "schema_normalizer", "market_analysis"},
      {"mongo_fetcher", "schema_normalizer", "finance_analysis"},
      {"mongo_fetcher", "schema_normalizer", "market_analysis", "finance_analysis"} }

\* the extraction keys the orchestrator's own code reads, and two the normalizer
\* fails on
OrchKeys == {"founders", "revenues", "tagline", "domain", "revenue_streams", "company_name"}

\* what an analysis provider may return: a category with one metric
ProviderAverages == {4, 8}

ProviderResult(metric, a) ==
    Dict((metric :> Dict([final_score |-> Num(a), validated |-> Str("yes")]))
         @@ [category_average |-> Num(a)])

ErrorResult(message) == Dict([error |-> Str(message)])

\* self.results as the run first sets it
InitialResults(pitch_id) ==
    Dict([pitchId |-> Str(pitch_id),
          clientId |-> Null,
          metadata |-> Dict([generated_at |-> Str(""),
                             analysis_version |-> Str("1.0"),
                             data_sources_used |-> Num(0),
                             total_validation_points |-> Num(0),
                             processing_time_estimate |-> Str("")]),
          analysis |-> EmptyDict,
          details |-> EmptyDict])

\* d[k] = v for a dict d
PySet(d, k, v) == Dict((k :> v) @@ d.d)

\* no fetcher: the run returns the error response
BeginUnavailable ==
    /\ pc = "start"
    /\ "mongo_fetcher" \notin available_agents
    /\ results' = InitialResults(PitchId)
    /\ pc' = "failed"
    /\ outcome' = "error_response"
    /\ UNCHANGED <<available_agents, stored, raw_data, normalized_data,
                   analysis_results, trace, received,
                   nvars, svars, xvars>>

\* Step 1: the fetcher is called
BeginFetch ==
    /\ pc = "start"
    /\ "mongo_fetcher" \in available_agents
    /\ results' = InitialResults(PitchId)
    /\ pc' = "fetching"
    /\ trace' = Append(trace, "fetch")
    /\ UNCHANGED <<available_agents, stored, raw_data, normalized_data,
                   analysis_results, received, outcome,
                   nvars, svars, xvars>>

FetchReturn ==
    /\ pc = "fetching"
    /\ stored # Null
    /\ raw_data' = stored
    /\ results' = PySet(PySet(results, "clientId", PyGet(stored, "clientId")),
                        "raw_data", stored)
    /\ pc' = "step2"
    /\ trace' = Append(trace, "fetch returned")
    /\ UNCHANGED <<available_agents, stored, normalized_data, analysis_results,
                   received, outcome,
                   nvars, svars, xvars>>

\* no such document, or the store cannot be reached: the error is raised again
FetchRaise ==
    /\ pc = "fetching"
    /\ pc' = "failed"
    /\ outcome' = "fetch raised"
    /\ trace' = Append(trace, "fetch raised")
    /\ UNCHANGED <<available_agents, stored, raw_data, normalized_data,
                   analysis_results, results, received,
                   nvars, svars, xvars>>

\* Step 2
NormalizeCall ==
    /\ pc = "step2"
    /\ Truthy(raw_data) /\ "schema_normalizer" \in available_agents
    /\ pc' = "normalizing"
    /\ trace' = Append(trace, "normalize")
    /\ UNCHANGED <<available_agents, stored, raw_data, normalized_data,
                   analysis_results, results, received, outcome,
                   nvars, svars, xvars>>

NormalizeReturn ==
    /\ pc = "normalizing"
    /\ normalize(raw_data, DefaultConfig).ok
    /\ normalized_data' = normalize(raw_data, DefaultConfig).v
    /\ results' = PySet(results, "normalized_data", normalized_data')
    /\ pc' = "step3"
    /\ trace' = Append(trace, "normalize returned")
    /\ UNCHANGED <<available_agents, stored, raw_data, analysis_results,
                   received, outcome,
                   nvars, svars, xvars>>

\* the normalizer raised: continue with raw data
NormalizeRaise ==
    /\ pc = "normalizing"
    /\ ~normalize(raw_data, DefaultConfig).ok
    /\ normalized_data' = raw_data
    /\ pc' = "step3"
    /\ trace' = Append(trace, "normalize raised")
    /\ UNCHANGED <<available_agents, stored, raw_data, analysis_results,
                   results, received, outcome,
                   nvars, svars, xvars>>

\* no normalizer: raw data is used
NormalizeSkip ==
    /\ pc = "step2"
    /\ ~(Truthy(raw_data) /\ "schema_normalizer" \in available_agents)
    /\ normalized_data' = raw_data
    /\ pc' = "step3"
    /\ UNCHANGED <<available_agents, stored, raw_data, analysis_results,
                   results, trace, received, outcome,
                   nvars, svars, xvars>>

\* Step 3: an analysis agent is called with normalized_data, when available
ProviderCall(agent, at, pending) ==
    /\ pc = at
    /\ agent \in available_agents
    /\ received' = (agent :> normalized_data) @@ received
    /\ pc' = pending
    /\ trace' = Append(trace, agent)
    /\ UNCHANGED <<available_agents, stored, raw_data, normalized_data,
                   analysis_results, results, outcome,
                   nvars, svars, xvars>>

ProviderReturn(agent, category, metric, pending, next) ==
    /\ pc = pending
    /\ \E a \in ProviderAverages :
          analysis_results' = PySet(analysis_results, category, ProviderResult(metric, a))
    /\ pc' = next
    /\ trace' = Append(trace, agent \o " returned")
    /\ UNCHANGED <<available_agents, stored, raw_data, normalized_data,
                   results, received, outcome,
                   nvars, svars, xvars>>

\* a provider step without its try/except: the exception leaves the run
ProviderRaiseAborts(agent, category, pending, next) ==
    /\ pc = pending
    /\ pc' = "failed"
    /\ outcome' = agent \o " raised"
    /\ trace' = Append(trace, agent \o " raised")
    /\ UNCHANGED <<available_agents, stored, raw_data, normalized_data,
                   analysis_results, results, received,
                   nvars, svars, xvars>>

\* where the run goes when a provider raises, and what it records
ProviderRaise(agent, category, pending, next) ==
    /\ pc = pending
    /\ analysis_results' = PySet(analysis_results, category, ErrorResult("boom"))
    /\ pc' = next
    /\ trace' = Append(trace, agent \o " raised")
    /\ UNCHANGED <<available_agents, stored, raw_data, normalized_data,
                   results, received, outcome,
                   nvars, svars, xvars>>

ProviderSkip(agent, at, next) ==
    /\ pc = at
    /\ agent \notin available_agents
    /\ pc' = next
    /\ UNCHANGED <<available_agents, stored, raw_data, normalized_data,
                   analysis_results, results, trace, received, outcome,
                   nvars, svars, xvars>>

MarketCall == ProviderCall("market_analysis", "step3", "market")
MarketReturn == ProviderReturn("market_analysis", "MarketAnalysis", "tam", "market", "step3b")
MarketRaise == ProviderRaise("market_analysis", "MarketAnalysis", "market", "step3b")
MarketSkip == ProviderSkip("market_analysis", "step3", "step3b")

FinanceCall == ProviderCall("finance_analysis", "step3b", "finance")
FinanceReturn == ProviderReturn("finance_analysis", "Finance", "runway", "finance", "step4")
FinanceRaise == ProviderRaise("finance_analysis", "Finance", "finance", "step4")
FinanceSkip == ProviderSkip("finance_analysis", "step3b", "step4")

\* the report of Step 4 once the details are extracted
Report(res, results_in, details, agents) ==
    LET r1 == PySet(res, "analysis", results_in)
        r2 == PySet(r1, "details", details)
        r3 == PySet(r2, "summary",
                    Str(PyStr(PyGetD(details, "name", Str("Company")))
                        \o " presents an investment opportunity in the "
                        \o PyStr(PyGetD(details, "domain", Str("Technology")))
                        \o " sector."))
        r4 == PySet(r3, "pros", List([i \in 1..3 |-> Str(_extract_pros(results_in)[i])]))
        r5 == PySet(r4, "red_flags",
                    List([i \in 1..3 |-> Str(_extract_red_flags(results_in)[i])]))
        r6 == PySet(r5, "final_irs_score", Num(_calculate_investment_score(results_in)))
        r7 == PySet(r6, "final_cs_score", Num(_calculate_confidence_score(results_in)))
        r8 == PySet(r7, "uniqueness", Num(_calculate_uniqueness_score(results_in)))
    IN  PySet(r8, "metadata",
              Dict([res.d.metadata.d EXCEPT
                      !.generated_at = Str("now"),
                      !.total_validation_points = Num(_count_validation_points(results_in)),
                      !.processing_time_estimate = Str(_estimate_processing_time(agents))]))

\* Step 4 not waiting for the finance step
ReadyBeforeFinance == pc \in {"step3b", "step4"}

\* Step 4 starts once the last provider step is over
ReadyToConsolidate == pc = "step4"

Consolidate ==
    /\ ReadyToConsolidate
    /\ _extract_basic_details(normalized_data).ok
    /\ results' = Report(results, analysis_results,
                         _extract_basic_details(normalized_data).v, available_agents)
    /\ pc' = "done"
    /\ outcome' = "report"
    /\ trace' = Append(trace, "consolidate")
    /\ UNCHANGED <<available_agents, stored, raw_data, normalized_data,
                   analysis_results, received,
                   nvars, svars, xvars>>

\* _extract_basic_details raises: nothing catches it
ConsolidateRaise ==
    /\ ReadyToConsolidate
    /\ ~_extract_basic_details(normalized_data).ok
    /\ results' = PySet(results, "analysis", analysis_results)
    /\ pc' = "failed"
    /\ outcome' = "details raised"
    /\ trace' = Append(trace, "consolidate raised")
    /\ UNCHANGED <<available_agents, stored, raw_data, normalized_data,
                   analysis_results, received,
                   nvars, svars, xvars>>


-----------------------------------------------------------------------------
(* One call of ScoringEngine.score on bounded analysis results *)

MaxOverrides == 1
MaxCats == 2

\* the weights a configuration may give a category
WeightChoices == {Num(0), Rat(125, 100), Num(-1), Rat(-1, 10)}

\* Config.DEFAULT_CONFIG["scoring"]["weights"]: its keys name no category
ConfigDefaultWeights ==
    [market_analysis |-> Rat(20, 100), competitive_landscape |-> Rat(15, 100),
     product_market_fit |-> Rat(20, 100), finance_analysis |-> Rat(25, 100),
     why_analysis |-> Rat(10, 100), scalability |-> Rat(10, 100)]

\* override maps: the configured default, up to n entries, or one weight for all six
WeightOverrides(n) ==
    {ConfigDefaultWeights}
    \cup UNION { [S -> WeightChoices] :
                 S \in { T \in SUBSET (DOMAIN DEFAULT_WEIGHTS \cup {"RiskMitigation"}) :
                           Cardinality(T) <= n } }
    \cup { [c \in DOMAIN DEFAULT_WEIGHTS |-> w] : w \in WeightChoices }

AnalysisCategories == {"MarketAnalysis", "Finance", "ProductMarketFit", "RiskMitigation"}

\* a category's result: the provider's averages, or the error shape
CategoryResults ==
    { Dict([category_average |-> Num(a)]) : a \in {1, 3, 5, 7, 9, 10} }
    \cup {ErrorResult("boom")}

\* analysis results with at most n categories
AnalysisMaps(n) ==
    UNION { { Dict(f) : f \in [S -> CategoryResults] } :
            S \in { T \in SUBSET AnalysisCategories : Cardinality(T) <= n } }

ResearchResult(c) == Dict([summary |-> Dict([credibility_score |-> Num(c)])])

\* no research, and credibility scores on both sides of each threshold
ResearchChoices ==
    {Null, ResearchResult(49), ResearchResult(50), ResearchResult(79), ResearchResult(80)}

Score ==
    /\ sout = NotCalled
    /\ sout' = Ok(score(analyses, research, config_weights))
    /\ UNCHANGED <<config_weights, analyses, research, nvars, ovars, xvars>>

-----------------------------------------------------------------------------
(* Specifications *)

IdleConv ==
    /\ conv_in = Null
    /\ conv_out = NotCalled
    /\ conv_back = NotCalled

IdleCheck ==
    /\ check_in = Null
    /\ check_out = NotCalled

IdleIssues ==
    /\ issue_list = <<>>
    /\ consistency = Null

IdleTemplate ==
    /\ template = Null
    /\ calls = <<>>

IdleConfig ==
    /\ default_config = Null
    /\ instances = <<>>

IdleValidate ==
    /\ val_in = Null
    /\ val_out = NotCalled

IdleRuns ==
    /\ heap = <<>>
    /\ self_results = 0
    /\ runs = <<>>

IdleLater == IdleTemplate /\ IdleConfig /\ IdleValidate /\ IdleRuns

\* nothing but the calls of the specification at hand takes place
IdleElsewhere == IdleConv /\ IdleCheck /\ IdleIssues /\ IdleLater

IdleNorm ==
    /\ nraw = Null
    /\ nout = NotCalled

IdleScore ==
    /\ config_weights = <<>>
    /\ analyses = EmptyDict
    /\ research = Null
    /\ sout = NotCalled

IdleOrch ==
    /\ available_agents = {}
    /\ stored = Null
    /\ pc = "idle"
    /\ raw_data = Null
    /\ normalized_data = Null
    /\ analysis_results = EmptyDict
    /\ results = EmptyDict
    /\ trace = <<>>
    /\ received = <<>>
    /\ outcome = "none"

\* a run of the orchestrator: the agents it has and the document in the store
Init ==
    /\ available_agents \in AgentSets
    /\ stored \in RawDocs(OrchKeys, MaxOrchKeys) \cup {Null}
    /\ pc = "start"
    /\ raw_data = Null
    /\ normalized_data = Null
    /\ analysis_results = EmptyDict
    /\ results = EmptyDict
    /\ trace = <<>>
    /\ received = <<>>
    /\ outcome = "none"
    /\ IdleNorm
    /\ IdleScore
    /\ IdleElsewhere

Next ==
    \/ BeginUnavailable \/ BeginFetch \/ FetchReturn \/ FetchRaise
    \/ NormalizeCall \/ NormalizeReturn \/ NormalizeRaise \/ NormalizeSkip
    \/ MarketCall \/ MarketReturn \/ MarketRaise \/ MarketSkip
    \/ FinanceCall \/ FinanceReturn \/ FinanceRaise \/ FinanceSkip
    \/ Consolidate \/ ConsolidateRaise

Spec == Init /\ [][Next]_vars

\* a call of normalize on a raw document
InitNorm ==
    /\ nraw \in RawDocs(ExtractionKeys, MaxKeys)
    /\ nout = NotCalled
    /\ IdleScore
    /\ IdleOrch
    /\ IdleElsewhere

NextNorm == Normalize

SpecNorm == InitNorm /\ [][NextNorm]_vars

\* a call of score on analysis results, research results and configured weights
InitScore ==
    /\ config_weights \in WeightOverrides(MaxOverrides)
    /\ analyses \in AnalysisMaps(MaxCats)
    /\ research \in ResearchChoices
    /\ sout = NotCalled
    /\ IdleNorm
    /\ IdleOrch
    /\ IdleElsewhere

NextScore == Score

SpecScore == InitScore /\ [][NextScore]_vars

-----------------------------------------------------------------------------
(* Properties of a run of the orchestrator *)

\* the calls and outcomes the run has recorded so far
Invoked == { trace[i] : i \in DOMAIN trace }

\* the analysis agents the orchestrator knows and the category each one fills
Providers ==
    { [agent |-> "market_analysis", category |-> "MarketAnalysis"],
      [agent |-> "finance_analysis", category |-> "Finance"] }

ProviderRaised(agent) == (agent \o " raised") \in Invoked
ProviderReturned(agent) == (agent \o " returned") \in Invoked

\* the provider steps are over
ProvidersOver == pc \in {"step4", "done", "failed"}

\* C1: after a successful fetch, an exception of an analysis provider is caught:
\* the category's result is {error: message}, the run goes on to the next step,
\* every other available provider is still invoked, and the run fails afterwards
\* only when extracting the details of the document raises, which the provider's
\* failure has no part in; otherwise it ends with the report holding the analysis.
C1_ProviderFailureIsolated ==
    \A p \in Providers :
        ProviderRaised(p.agent) =>
            /\ "fetch returned" \in Invoked
            /\ PyGet(analysis_results, p.category) = Dict([error |-> Str("boom")])
            /\ pc \in {"step3b", "finance", "step4", "done", "failed"}
            /\ ProvidersOver =>
                  \A q \in Providers :
                      q.agent \in available_agents => q.agent \in Invoked
            /\ pc = "failed" =>
                  /\ outcome = "details raised"
                  /\ ~_extract_basic_details(normalized_data).ok
            /\ pc = "done" =>
                  /\ outcome = "report"
                  /\ PyGet(results, "analysis") = analysis_results

\* the market provider raised, the finance provider was still called and
\* returned, and the run ended with a report
C1_Witness ==
    /\ pc = "done"
    /\ outcome = "report"
    /\ ProviderRaised("market_analysis")
    /\ ProviderReturned("finance_analysis")
    /\ PyGet(PyGet(results, "analysis"), "MarketAnalysis") = Dict([error |-> Str("boom")])

\* C3: a run fails only when the document could not be retrieved: once the fetch
\* succeeded, no later step makes the run fail, whatever the document holds.
C3_OnlyRetrievalFails ==
    pc = "failed" => outcome \in {"error_response", "fetch raised"}

\* C4: when the normalizer raises the run does not fail: the providers get the
\* fetched raw document unchanged and the run continues to a report.
C4_NormalizerFailureDegrades ==
    "normalize raised" \in Invoked =>
        /\ normalized_data = raw_data
        /\ \A agent \in DOMAIN received : received[agent] = stored
        /\ pc # "failed"

\* C5: a run that does not fail runs every stage once and in order: retrieval,
\* the normalizer, the analysis providers, the consistency checker and the
\* scoring engine, consolidation; no stage is skipped.
C5_EveryStageRuns ==
    pc = "done" =>
        {"fetch", "normalize", "market_analysis", "finance_analysis",
         "consistency_checker", "scoring_engine", "consolidate"} \subseteq Invoked

\* C6: the scores of the report are computed only after every provider the run
\* invokes has returned or has failed and been recorded: while a provider step
\* is still to come the results hold no score, and the scores they hold are those
\* of the complete analysis results.
C6_ScoresAfterAllProviders ==
    /\ pc \in {"start", "fetching", "step2", "normalizing",
               "step3", "market", "step3b", "finance", "step4"} =>
          DOMAIN results.d \cap {"final_irs_score", "final_cs_score"} = {}
    /\ "final_irs_score" \in DOMAIN results.d =>
          /\ \A p \in Providers :
                p.agent \in available_agents =>
                    /\ ProviderReturned(p.agent) \/ ProviderRaised(p.agent)
                    /\ p.category \in DOMAIN analysis_results.d
          /\ PyGet(results, "analysis") = analysis_results
          /\ PyGet(results, "final_irs_score")
                = Num(_calculate_investment_score(analysis_results))
          /\ PyGet(results, "final_cs_score")
                = Num(_calculate_confidence_score(analysis_results))

\* both providers were called, one failed, and the scores were then computed
C6_Witness ==
    /\ "final_irs_score" \in DOMAIN results.d
    /\ ProviderReturned("market_analysis")
    /\ ProviderRaised("finance_analysis")

-----------------------------------------------------------------------------
(* Properties of normalize *)

\* the extraction of the document normalize was called on
Extraction == PyGetD(nraw, "extraction", EmptyDict)

\* the extraction keys normalize maps to a canonical field
MappedKeys ==
    {"company_name", "tagline", "website", "date", "email", "phone", "address",
     "founders", "experience", "tam", "sam", "som", "cagr", "domain", "sub_domain",
     "problem_statement", "solution", "USP", "competitors", "arr", "mrr",
     "total_revenue", "gross_profit", "ebita", "year_on_year_growth", "revenues",
     "runway", "ask", "valuation", "funds_raised", "revenue_streams",
     "business_model", "channels"}

\* C7: every key of the extraction whose value is not null and is not mapped to
\* a canonical field is in extras under its path, with its value unchanged.
C7_ExtrasLossless ==
    nout.ok =>
        \A k \in DOMAIN Extraction.d \ MappedKeys :
            Extraction.d[k] # Null =>
                /\ k \in DOMAIN nout.v.d.extras.d
                /\ nout.v.d.extras.d[k] = Extraction.d[k]

CanonicalSections ==
    {"metadata", "contact", "team", "market", "positioning", "finance", "fundraise",
     "gtm", "units", "extras"}

\* C8: normalize never raises: for every raw document it returns an object with
\* the ten canonical sections.
C8_NormalizeNeverRaises ==
    nout # NotCalled =>
        /\ nout.ok
        /\ DOMAIN nout.v.d = CanonicalSections

\* the canonical section of each monetary field
MoneySection ==
    [tam |-> "market", sam |-> "market", som |-> "market",
     arr |-> "finance", mrr |-> "finance", total_revenue |-> "finance",
     gross_profit |-> "finance", ebita |-> "finance",
     ask |-> "fundraise", valuation |-> "fundraise", funds_raised |-> "fundraise"]

\* the value a source amount holds: that of a non-empty object, else none
SourceValue(src) ==
    IF src.t = "dict" /\ DOMAIN src.d # {} THEN PyGet(src, "value") ELSE Null

\* the {value, currency} pair of a source amount, USD when it names no currency
SourcePair(src) ==
    Dict([value |-> PyGet(src, "value"), currency |-> PyGetD(src, "currency", Str("USD"))])

\* a normalized amount is in USD and keeps the source pair exactly when the
\* source holds a value
AuditedAmount(leaf, src) ==
    /\ leaf.d.currency = Str("USD")
    /\ (leaf.d.raw = Null) <=> (SourceValue(src) = Null)
    /\ SourceValue(src) # Null => leaf.d.raw = SourcePair(src)

\* the object items of the source revenues
SourceRevenues ==
    LET r == PyGetD(Extraction, "revenues", EmptyList)
    IN  IF r.t = "list" THEN { r.l[i] : i \in { j \in DOMAIN r.l : r.l[j].t = "dict" } }
        ELSE {}

\* C9: when normalize returns, the base currency is USD, every monetary leaf and
\* every revenue entry is in USD, and raw holds the source {value, currency}
\* pair when the source value is not null and is null exactly when it is null.
C9_AmountsInUSDWithRaw ==
    nout.ok =>
        /\ nout.v.d.units.d.base_currency = Str("USD")
        /\ \A f \in DOMAIN MoneySection :
              AuditedAmount(nout.v.d[MoneySection[f]].d[f], PyGet(Extraction, f))
        /\ LET revs == nout.v.d.finance.d.revenues.l
           IN  /\ \A i \in DOMAIN revs :
                     /\ revs[i].d.currency = Str("USD")
                     /\ \E src \in SourceRevenues :
                           /\ (revs[i].d.raw = Null) <=> (PyGet(src, "value") = Null)
                           /\ PyGet(src, "value") # Null =>
                                 revs[i].d.raw = SourcePair(src)
               /\ \A src \in SourceRevenues :
                     PyGet(src, "value") # Null =>
                         \E i \in DOMAIN revs : revs[i].d.raw = SourcePair(src)

\* an amount in rupees was converted and kept under raw, beside a revenue
\* series with a converted entry
C9_Witness ==
    /\ nout.ok
    /\ PyGet(Extraction, "tam") = Amount(Num(8700), "INR")
    /\ nout.v.d.market.d.tam = Dict([value |-> Num(100), currency |-> Str("USD"),
                                     raw |-> Amount(Num(8700), "INR")])
    /\ Len(nout.v.d.finance.d.revenues.l) = 2

-----------------------------------------------------------------------------
(* Properties of score *)

\* a category result of the error shape
IsError(r) == r.t = "dict" /\ "error" \in DOMAIN r.d /\ "category_average" \notin DOMAIN r.d

\* the analysis results without one category
Without(results_in, c) == Dict([k \in DOMAIN results_in.d \ {c} |-> results_in.d[k]])

\* C2: a category whose result is {error: message} is excluded from scoring: it
\* is absent from category_scores, and overall_raw and overall_adjusted are those
\* of the same analysis results without the category.
C2_ErrorCategoryExcluded ==
    sout.ok =>
        \A c \in DOMAIN analyses.d :
            IsError(analyses.d[c]) =>
                /\ c \notin DOMAIN sout.v.category_scores
                /\ sout.v.overall_raw
                      = score(Without(analyses, c), research, config_weights).overall_raw
                /\ sout.v.overall_adjusted
                      = score(Without(analyses, c), research, config_weights).overall_adjusted

\* the six weights before normalization: the override where it names the
\* category, the default elsewhere
Overridden(c) ==
    IF c \in DOMAIN config_weights THEN config_weights[c] ELSE DEFAULT_WEIGHTS[c]

SixCategories ==
    {"MarketAnalysis", "CompetitiveLandscape", "ProductMarketFit", "Finance",
     "WhyAnalysis", "Scalability"}

OverriddenTotal == RatSum([c \in SixCategories |-> Overridden(c)], SixCategories)

-----------------------------------------------------------------------------
(* Properties of the overall score *)

\* the categories score has given an entry
Used == DOMAIN sout.v.category_scores

UsedWeights == RatSum([c \in Used |-> sout.v.category_scores[c].weight], Used)

UsedWeightedScores ==
    RatSum([c \in Used |-> sout.v.category_scores[c].weighted_score], Used)

\* overall_raw is not below the smallest nor above the largest adjusted score
\* of the categories used, each taken to one decimal
BetweenAdjustedScores ==
    /\ \E c \in Used :
          RatLeq(Round1(sout.v.category_scores[c].adjusted_score), sout.v.overall_raw)
    /\ \E c \in Used :
          RatLeq(sout.v.overall_raw, Round1(sout.v.category_scores[c].adjusted_score))

\* C11 as stated: whenever a category is used, overall_raw lies between the
\* smallest and the largest adjusted_score of the categories used.
C11_RawAlwaysBetweenScores ==
    (sout.ok /\ Used # {}) => BetweenAdjustedScores

\* C11: the categories used are the weighted categories present in analyses;
\* when their weights have a positive sum overall_raw is the sum of their
\* weighted scores divided by the sum of their weights, rounded to one decimal,
\* and 0 otherwise; when moreover no weight used is negative, overall_raw lies
\* between the smallest and the largest adjusted_score, taken to one decimal.
C11_RawIsWeightedAverage ==
    sout.ok =>
        /\ Used = DOMAIN analyses.d \cap SixCategories
        /\ \A c \in Used :
              sout.v.category_scores[c].weighted_score
                 = RatMul(sout.v.category_scores[c].adjusted_score,
                          sout.v.category_scores[c].weight)
        /\ RatLess(Num(0), UsedWeights) =>
              sout.v.overall_raw = Round1(RatDiv(UsedWeightedScores, UsedWeights))
        /\ ~RatLess(Num(0), UsedWeights) => sout.v.overall_raw = Num(0)
        /\ (/\ RatLess(Num(0), UsedWeights)
            /\ \A c \in Used : RatLeq(Num(0), sout.v.category_scores[c].weight)) =>
              BetweenAdjustedScores

\* equal weights, averages 9 and 5 and no other category: overall_raw is 7.0
C11_Witness ==
    /\ sout.ok
    /\ research = Null
    /\ analyses = Dict([MarketAnalysis |-> Dict([category_average |-> Num(9)]),
                        Finance |-> Dict([category_average |-> Num(5)])])
    /\ sout.v.category_scores["MarketAnalysis"].weight
          = sout.v.category_scores["Finance"].weight
    /\ RatLess(Num(0), UsedWeights)
    /\ sout.v.overall_raw = Num(7)

\* C12: when no category has a usable category_average (no category at all, or
\* error-shaped ones only) the overall investment score of the run is one fixed
\* default, the same in every such case.
C12_UnderflowGivesOneDefault ==
    (/\ pc = "done"
     /\ \A c \in DOMAIN analysis_results.d : IsError(analysis_results.d[c])) =>
        PyGet(results, "final_irs_score") = Num(5)

-----------------------------------------------------------------------------
(* Properties of the category scores *)

\* credibility_score of the research handed to score
Credibility == research.d["summary"].d["credibility_score"]

\* the adjustment the thresholds 80 and 50 give a credibility score
Nudge ==
    IF RatLeq(Num(80), Credibility) THEN Rat(1, 2)
    ELSE IF RatLeq(Num(50), Credibility) THEN Num(0)
    ELSE Num(-1)

\* raw + nudge, kept within [1, 10]
Nudged(raw) ==
    LET moved == RatAdd(raw, Nudge)
    IN  IF RatLess(moved, Num(1)) THEN Num(1)
        ELSE IF RatLess(Num(10), moved) THEN Num(10)
        ELSE moved

\* the entry of a category follows from its raw_score as the rule says
AdjustedFromRaw(c) ==
    /\ research = Null =>
          sout.v.category_scores[c].adjusted_score = sout.v.category_scores[c].raw_score
    /\ research # Null =>
          sout.v.category_scores[c].adjusted_score
             = Nudged(sout.v.category_scores[c].raw_score)
    /\ sout.v.category_scores[c].weighted_score
          = RatMul(sout.v.category_scores[c].adjusted_score,
                   sout.v.category_scores[c].weight)

\* the category has a category_average and raw_score is that value
RawIsAverage(c) ==
    /\ "category_average" \in DOMAIN analyses.d[c].d
    /\ sout.v.category_scores[c].raw_score = analyses.d[c].d["category_average"]

\* the rule on the categories that do have a category_average
AdjustedWhereAveraged ==
    sout.ok =>
        \A c \in Used :
            "category_average" \in DOMAIN analyses.d[c].d =>
                RawIsAverage(c) /\ AdjustedFromRaw(c)

\* C23: for every category in category_scores, raw_score is the category's
\* category_average; with research adjusted_score is raw_score + 0.5 for a
\* credibility of 80 or more, + 0 from 50 to below 80, - 1 below 50, clamped to
\* [1, 10]; without research it is raw_score; weighted_score is
\* adjusted_score * weight.
C23_AdjustedByCredibility ==
    sout.ok => \A c \in Used : RawIsAverage(c) /\ AdjustedFromRaw(c)

-----------------------------------------------------------------------------
(* Properties of the overall adjustment *)

\* the category is in analyses and carries a category_average
Averaged(c) == c \in DOMAIN analyses.d /\ "category_average" \in DOMAIN analyses.d[c].d

\* the penalty the average of the risk category earns, none without an average
PenaltyFor(c) ==
    IF ~Averaged(c) THEN Num(0)
    ELSE IF RatLeq(analyses.d[c].d["category_average"], Num(3)) THEN Num(-1)
    ELSE IF RatLeq(analyses.d[c].d["category_average"], Num(5)) THEN Rat(-1, 2)
    ELSE Num(0)

\* the bonus an average of 9 or more earns, none without an average
BonusFor(c) ==
    IF Averaged(c) /\ RatLeq(Num(9), analyses.d[c].d["category_average"])
    THEN Rat(1, 2)
    ELSE Num(0)

NudgedOverall ==
    RatAdd(RatAdd(RatAdd(sout.v.overall_raw, PenaltyFor("RiskMitigation")),
                  BonusFor("ProductMarketFit")),
           BonusFor("MarketAnalysis"))

WithinScale(x) == RatLeq(Num(1), x) /\ RatLeq(x, Num(10))

ClampedOverall ==
    IF RatLess(NudgedOverall, Num(1)) THEN Num(1)
    ELSE IF RatLess(Num(10), NudgedOverall) THEN Num(10)
    ELSE NudgedOverall

AdjustedAsStated ==
    /\ sout.v.overall_adjusted = Round1(ClampedOverall)
    /\ WithinScale(sout.v.overall_adjusted)

\* none of the three categories the adjustment reads is error-shaped
NoneFailed ==
    \A c \in {"RiskMitigation", "ProductMarketFit", "MarketAnalysis"} :
        c \in DOMAIN analyses.d => Averaged(c)

\* the rule on inputs in which the three categories, when present, have an average
AdjustedWhenNoneFailed == (sout.ok /\ NoneFailed) => AdjustedAsStated

\* overall_adjusted is within [1, 10] whatever the input
AlwaysWithinScale == sout.ok => WithinScale(sout.v.overall_adjusted)

\* C24: overall_adjusted is overall_raw minus 1.0 when the risk average is <= 3,
\* else minus 0.5 when it is <= 5, plus 0.5 when the product-fit average is
\* >= 9, plus 0.5 when the market average is >= 9, clamped to [1, 10] and
\* rounded to one decimal; it always lies in [1, 10]; a category without an
\* average in analyses causes no adjustment.
C24_OverallAdjusted == sout.ok => AdjustedAsStated

-----------------------------------------------------------------------------
(* A conversion and the conversion back *)

\* the amounts handed to convert_currency: none, numbers, a string
ConvAmounts == {Null, Num(0), Num(100), Rat(5, 2), Num(-87), Str("1.2M")}

\* the currency codes: in both tables, in the fallback table only, in neither,
\* none, and a value that is no code
ConvCurrencies == {USD, Str("INR"), Str("EUR"), Str("HKD"), Str("QQQ"), Null, EmptyList}

\* the callers' configurations
ConvConfigs ==
    {NoConfig, DefaultConfig, ConfigWithRates(<<>>),
     ConfigWithRates([QQQ |-> Num(4)]), ConfigWithRates([EUR |-> Num(0)]),
     ConfigWithRates([USD |-> Num(2)])}

ConvInputs ==
    [amount : ConvAmounts, from_currency : ConvCurrencies,
     to_currency : ConvCurrencies, config : ConvConfigs]

\* convert_currency(amount, from_currency, to_currency, config)
Convert ==
    /\ conv_out = NotCalled
    /\ conv_out' = convert_currency(conv_in.amount, conv_in.from_currency,
                                    conv_in.to_currency, conv_in.config)
    /\ UNCHANGED <<conv_in, conv_back, nvars, svars, ovars, kvars, ivars, yvars>>

\* convert_currency(converted, to_currency, from_currency, config)
ConvertBack ==
    /\ conv_out.ok
    /\ conv_back = NotCalled
    /\ conv_back' = convert_currency(conv_out.v, conv_in.to_currency,
                                     conv_in.from_currency, conv_in.config)
    /\ UNCHANGED <<conv_in, conv_out, nvars, svars, ovars, kvars, ivars, yvars>>

InitConv ==
    /\ conv_in \in ConvInputs
    /\ conv_out = NotCalled
    /\ conv_back = NotCalled
    /\ IdleNorm
    /\ IdleScore
    /\ IdleOrch
    /\ IdleCheck
    /\ IdleIssues
    /\ IdleLater

NextConv == Convert \/ ConvertBack

SpecConv == InitConv /\ [][NextConv]_vars

-----------------------------------------------------------------------------
(* Properties of convert_currency *)

\* the rate table R of the call
RateTable == _get_currency_rates(conv_in.config)

\* the currency has a non-zero rate in the rate table
HasRate(currency) ==
    /\ currency.t = "str"
    /\ currency.s \in DOMAIN RateTable
    /\ RateTable[currency.s].num # 0

IsAmount(v) == v = Null \/ v.t = "num"

\* C17: with both currencies at a non-zero rate in the rate table, converting
\* an amount and converting the result back gives the amount, exactly; and an
\* amount converted to its own currency is unchanged.
C17_RoundTripExact ==
    /\ (/\ conv_back # NotCalled
        /\ IsAmount(conv_in.amount)
        /\ HasRate(conv_in.from_currency)
        /\ HasRate(conv_in.to_currency)) => conv_back = Ok(conv_in.amount)
    /\ (/\ conv_out # NotCalled
        /\ conv_in.from_currency = conv_in.to_currency) => conv_out = Ok(conv_in.amount)

\* 100 INR at 87 per USD is 85/87 EUR at 0.85 per USD, and 100 INR again
C17_Witness ==
    /\ conv_in = [amount |-> Num(100), from_currency |-> Str("INR"),
                  to_currency |-> Str("EUR"), config |-> DefaultConfig]
    /\ conv_out = Ok(Rat(85, 87))
    /\ conv_back = Ok(Num(100))

\* the built-in table, before a caller's rates are merged in
BuiltinRates == _get_currency_rates(NoConfig)

\* the rates the caller supplied
CallerRates == IF conv_in.config = NoConfig THEN <<>> ELSE conv_in.config.rates

\* the codes the fallback table adds to the built-in table
FallbackOnly == {"HKD", "NZD", "SEK", "KRW", "NOK", "MXN", "BRL", "RUB", "ZAR", "TRY"}

\* the currency is a code, or none, that neither the caller nor a table holds
UnknownCurrency(currency) ==
    /\ currency.t \in {"str", "null"}
    /\ currency.t = "str" =>
          /\ currency.s \notin DOMAIN CallerRates
          /\ currency.s \notin DOMAIN BuiltinRates
          /\ currency.s \notin FallbackOnly

-----------------------------------------------------------------------------
(* consistency_checker.py: the consistency score *)

\* sum(1 for issue in issues if issue.get("severity") == severity)
RECURSIVE SeverityCount(_, _)
SeverityCount(issues, severity) ==
    IF issues = <<>> THEN 0
    ELSE (IF PyGet(Head(issues), "severity") = Str(severity) THEN 1 ELSE 0)
         + SeverityCount(Tail(issues), severity)

\* 10.0 less 2.0 per high, 1.0 per medium and 0.5 per low issue
Deducted(issues) ==
    Rat(20 - 4 * SeverityCount(issues, "high") - 2 * SeverityCount(issues, "medium")
           - SeverityCount(issues, "low"), 2)

\* the deducted score as it is, below 1.0 too
Unclamped(issues) == Deducted(issues)

_calculate_consistency_score(issues) == RatMax(Num(1), RatMin(Num(10), Deducted(issues)))

\* an issue of a severity
IssueOf(severity) == Dict([severity |-> Str(severity)])

\* the issues of the lists: the three severities that count, one that does
\* not, and an issue that names no severity
IssueChoices ==
    {IssueOf("high"), IssueOf("medium"), IssueOf("low"), IssueOf("critical"), EmptyDict}

MaxIssues == 5

RECURSIVE IssueLists(_)
IssueLists(n) ==
    IF n = 0 THEN {<<>>}
    ELSE IssueLists(n - 1)
         \cup {Append(l, i) : l \in {p \in IssueLists(n - 1) : Len(p) = n - 1},
                               i \in IssueChoices}

\* _calculate_consistency_score(issues)
CalculateScore ==
    /\ consistency = Null
    /\ consistency' = _calculate_consistency_score(issue_list)
    /\ UNCHANGED <<issue_list, nvars, svars, ovars, cvars, kvars, yvars>>

\* one more issue, and the score of the longer list
AddIssue ==
    /\ consistency # Null
    /\ Len(issue_list) < MaxIssues
    /\ \E issue \in IssueChoices :
          /\ issue_list' = Append(issue_list, issue)
          /\ consistency' = _calculate_consistency_score(Append(issue_list, issue))
    /\ UNCHANGED <<nvars, svars, ovars, cvars, kvars, yvars>>

InitIssues ==
    /\ issue_list \in IssueLists(MaxIssues)
    /\ consistency = Null
    /\ IdleNorm
    /\ IdleScore
    /\ IdleOrch
    /\ IdleConv
    /\ IdleCheck
    /\ IdleLater

NextIssues == CalculateScore \/ AddIssue

SpecIssues == InitIssues /\ [][NextIssues]_vars

-----------------------------------------------------------------------------
(* Properties of the consistency score *)

\* the number of issues of a severity in the list
IssuesOf(severity) ==
    Cardinality({i \in 1..Len(issue_list) : issue_list[i] = IssueOf(severity)})

\* twice 10.0 - 2.0 * high - 1.0 * medium - 0.5 * low
TwiceUnclamped == 20 - 4 * IssuesOf("high") - 2 * IssuesOf("medium") - IssuesOf("low")

ScoreFromCounts ==
    consistency # Null =>
        /\ consistency = (IF TwiceUnclamped < 2 THEN Num(1)
                          ELSE IF TwiceUnclamped > 20 THEN Num(10)
                          ELSE Rat(TwiceUnclamped, 2))
        /\ RatLeq(Num(1), consistency)
        /\ RatLeq(consistency, Num(10))
        /\ issue_list = <<>> => consistency = Num(10)

\* a step that adds an issue to a scored list leaves a score that is not higher
ScoreNeverIncreases ==
    (consistency # Null /\ Len(issue_list') = Len(issue_list) + 1) =>
        RatLeq(consistency', consistency)

\* C16: the consistency score is 10.0 minus 2.0 per high, 1.0 per medium and
\* 0.5 per low issue, clamped to [1.0, 10.0]: it lies in [1.0, 10.0], is 10.0
\* for no issues, and never increases when an issue is added.
C16_ScoreFromIssueCounts == [] ScoreFromCounts /\ [][ScoreNeverIncreases]_vars

\* five high issues: 10 - 10 = 0 is clamped to 1.0
C16_Witness ==
    /\ IssuesOf("high") = 5
    /\ consistency = Num(1)

-----------------------------------------------------------------------------
(* Properties of the extras *)

\* C19: an extraction key whose value normalize mapped to a canonical field
\* is never also a key of extras.
C19_MappedNeverInExtras ==
    nout.ok =>
        \A k \in MappedKeys \cap DOMAIN Extraction.d :
            Extraction.d[k] # Null => k \notin DOMAIN nout.v.d.extras.d

-----------------------------------------------------------------------------
(* Properties of the report *)

ReportKeys ==
    {"pitchId", "clientId", "metadata", "validation_summary", "comments", "details",
     "summary", "pros", "red_flags", "ai_questionnaire", "data_quality_assessment",
     "forecasting_methodology", "final_irs_score", "final_cs_score", "uniqueness"}

ReportMetadataKeys ==
    {"generated_at", "analysis_version", "data_sources_used",
     "total_validation_points", "processing_time_estimate"}

\* C20: the report of a run that reaches Done has every top-level key of the
\* report schema, and its metadata has the five metadata keys.
C20_ReportHasEveryKey ==
    pc = "done" =>
        /\ ReportKeys \subseteq DOMAIN results.d
        /\ ReportMetadataKeys \subseteq DOMAIN results.d.metadata.d

-----------------------------------------------------------------------------
(* Strings of the analysis results: str.replace, float() and number formats *)

\* the character at position i
CharAt(s, i) == SubSeq(s, i, i)

\* s.replace(c, "") for a character c
RECURSIVE Without1(_, _)
Without1(s, c) ==
    IF s = "" THEN ""
    ELSE IF CharAt(s, 1) = c THEN Without1(SubSeq(s, 2, Len(s)), c)
    ELSE CharAt(s, 1) \o Without1(SubSeq(s, 2, Len(s)), c)

\* c in s for a character c
HasChar(s, c) == \E i \in 1..Len(s) : CharAt(s, i) = c

\* the position of the first c in s
FirstAt(s, c) == CHOOSE i \in 1..Len(s) : CharAt(s, i) = c /\ ~HasChar(SubSeq(s, 1, i - 1), c)

IsDigit(c) == \E d \in 0..9 : CharAt("0123456789", d + 1) = c

DigitValue(c) == CHOOSE d \in 0..9 : CharAt("0123456789", d + 1) = c

\* every character is a digit; true of the empty string
AllDigits(s) == \A i \in 1..Len(s) : IsDigit(CharAt(s, i))

\* s.isdigit()
isdigit(s) == s # "" /\ AllDigits(s)

\* int(s) for digits s, 0 for the empty string
RECURSIVE DigitsValue(_)
DigitsValue(s) ==
    IF s = "" THEN 0
    ELSE 10 * DigitsValue(SubSeq(s, 1, Len(s) - 1)) + DigitValue(CharAt(s, Len(s)))

RECURSIVE Pow(_, _)
Pow(b, e) == IF e = 0 THEN 1 ELSE b * Pow(b, e - 1)

\* float(s) for an unsigned s: digits, with at most one point among them
FloatUnsigned(s) ==
    IF ~HasChar(s, ".")
    THEN IF isdigit(s) THEN Ok(Num(DigitsValue(s))) ELSE Raise("ValueError")
    ELSE IF /\ AllDigits(Without1(s, "."))
            /\ Len(Without1(s, ".")) = Len(s) - 1
            /\ Len(s) > 1
    THEN Ok(Rat(DigitsValue(Without1(s, ".")), Pow(10, Len(s) - FirstAt(s, "."))))
    ELSE Raise("ValueError")

Negated(out) == IF out.ok THEN Ok(Rat(-out.v.num, out.v.den)) ELSE out

\* float(s) for a string of digits, a point and a sign; any other string,
\* of letters or empty, is no number
PyFloat(s) ==
    IF s # "" /\ CharAt(s, 1) = "-" THEN Negated(FloatUnsigned(SubSeq(s, 2, Len(s))))
    ELSE FloatUnsigned(s)

\* the nearest integer, a tie going to the even one
RoundHalfEven(x) ==
    LET q == x.num \div x.den
        r == x.num - q * x.den
    IN  IF 2 * r < x.den THEN q
        ELSE IF 2 * r > x.den THEN q + 1
        ELSE IF q % 2 = 0 THEN q
        ELSE q + 1

\* digits with a comma before every group of three
RECURSIVE Grouped(_)
Grouped(digits) ==
    IF Len(digits) <= 3 THEN digits
    ELSE Grouped(SubSeq(digits, 1, Len(digits) - 3))
         \o "," \o SubSeq(digits, Len(digits) - 2, Len(digits))

\* f"{x:,.0f}" for x >= 0
FormatThousands(x) == Grouped(ToString(RoundHalfEven(x)))

-----------------------------------------------------------------------------
(* consistency_checker.py: the rules.  The texts of "issue" and "note" are   *)
(* left out of the issues and fixes.                                        *)

\* the issues and fixes of a rule
NoFindings == [issues |-> <<>>, fixes |-> <<>>]

Joined(a, b) == [issues |-> a.issues \o b.issues, fixes |-> a.fixes \o b.fixes]

\* the findings of outcomes in order, or the first exception raised
RECURSIVE Collected(_)
Collected(outs) ==
    IF outs = <<>> THEN Ok(NoFindings)
    ELSE IF ~Head(outs).ok THEN Head(outs)
    ELSE IF ~Collected(Tail(outs)).ok THEN Collected(Tail(outs))
    ELSE Ok(Joined(Head(outs).v, Collected(Tail(outs)).v))

Issue(section, field, severity) ==
    Dict([section |-> Str(section), field |-> Str(field), severity |-> Str(severity)])

Fix(section, field, current, corrected) ==
    Dict([section |-> Str(section), field |-> Str(field), current |-> current,
          corrected |-> corrected])

OneFinding(issue, fix) == [issues |-> <<issue>>, fixes |-> <<fix>>]

\* o.get(k): an object that is no dict has no get
GetOf(o, k) == IF o.t = "dict" THEN Ok(PyGet(o, k)) ELSE Raise("AttributeError")

\* the unit of one metric against the base currency
UnitMismatch(section, metric, unit, base_currency, exempt) ==
    IF ~unit.ok THEN unit
    ELSE IF Truthy(unit.v) /\ unit.v # base_currency /\ unit.v \notin exempt
    THEN Ok(OneFinding(Issue(section, metric, "medium"),
                       Fix(section, metric \o ".unit", unit.v, base_currency)))
    ELSE Ok(NoFindings)

\* the metrics of one section, in order
SectionUnits(section, category, metrics, base_currency, exempt) ==
    [i \in 1..Len(metrics) |->
        IF metrics[i] \in DOMAIN category.d
        THEN UnitMismatch(section, metrics[i], GetOf(category.d[metrics[i]], "unit"),
                          base_currency, exempt)
        ELSE Ok(NoFindings)]

\* the units of a section of the analysis results, nothing when it is absent
UnitsOf(section, analysis, metrics, base_currency, exempt) ==
    IF section \in DOMAIN analysis.d
    THEN Collected(SectionUnits(section, analysis.d[section], metrics, base_currency, exempt))
    ELSE Ok(NoFindings)

BaseCurrency(normalized) ==
    PyGetD(PyGetD(normalized, "units", EmptyDict), "base_currency", USD)

_check_currency_consistency(normalized, analysis) ==
    Collected(<<UnitsOf("MarketAnalysis", analysis, <<"tam", "sam", "som">>,
                        BaseCurrency(normalized), {}),
                UnitsOf("Finance", analysis, <<"gross_margin", "ebitda", "valuation", "ask">>,
                        BaseCurrency(normalized), {Str("Percent"), Str("Ratio")})>>)

\* the multiplier of the suffix of a cleaned value
Multiplier(clean) ==
    IF clean = "" THEN 1
    ELSE CASE CharAt(clean, Len(clean)) = "B" -> 1000000000
           [] CharAt(clean, Len(clean)) = "M" -> 1000000
           [] CharAt(clean, Len(clean)) = "K" -> 1000
           [] OTHER -> 1

\* the cleaned value less its suffix
Unsuffixed(clean) ==
    IF Multiplier(clean) = 1 THEN clean ELSE SubSeq(clean, 1, Len(clean) - 1)

\* float(clean_value) * multiplier, None when float raises ValueError
Scaled(number, multiplier) ==
    IF number.ok THEN RatMul(number.v, Num(multiplier)) ELSE Null

\* the value of a validated string such as "$50B", None when there is none
SizeOf(validated) ==
    IF validated.t = "str" /\ validated.s # ""
    THEN Scaled(PyFloat(Unsuffixed(Without1(Without1(validated.s, "$"), ","))),
                Multiplier(Without1(Without1(validated.s, "$"), ",")))
    ELSE Null

\* the value of a metric of the market analysis
MetricSize(market_analysis, metric) ==
    IF metric \notin DOMAIN market_analysis.d THEN Ok(Null)
    ELSE IF market_analysis.d[metric].t # "dict" THEN Raise("AttributeError")
    ELSE Ok(SizeOf(PyGet(market_analysis.d[metric], "validated")))

\* the hierarchy admits a parent below its child
ChildMayEqual(parent, child) == RatLess(parent, child)

\* parent <= child
Violates(parent, child) == RatLeq(parent, child)

\* one level of the hierarchy: the issue, and the fix when the parent is positive
Level(market_analysis, parent, child, field, child_metric) ==
    IF parent # Null /\ child # Null /\ Violates(parent, child)
    THEN [issues |-> <<Issue("MarketAnalysis", field, "high")>>,
          fixes |-> IF RatLess(Num(0), parent)
                    THEN <<Fix("MarketAnalysis", child_metric \o ".validated",
                               PyGet(market_analysis.d[child_metric], "validated"),
                               Str("$" \o FormatThousands(RatMul(parent, Rat(25, 100)))))>>
                    ELSE <<>>]
    ELSE NoFindings

\* the two levels, for the values of tam, sam and som
Levels(market_analysis, sizes) ==
    IF ~FirstRaise(sizes).ok THEN FirstRaise(sizes)
    ELSE Ok(Joined(Level(market_analysis, sizes[1].v, sizes[2].v, "tam_sam_hierarchy", "sam"),
                   Level(market_analysis, sizes[2].v, sizes[3].v, "sam_som_hierarchy", "som")))

_check_market_size_hierarchy(normalized, analysis) ==
    IF "MarketAnalysis" \notin DOMAIN analysis.d THEN Ok(NoFindings)
    ELSE Levels(analysis.d.MarketAnalysis,
                <<MetricSize(analysis.d.MarketAnalysis, "tam"),
                  MetricSize(analysis.d.MarketAnalysis, "sam"),
                  MetricSize(analysis.d.MarketAnalysis, "som")>>)

\* the year of a period string, 0 when it gives none: the digits before the
\* first hyphen, or a period of four digits
YearOf(period) ==
    IF HasChar(period, "-")
    THEN IF isdigit(SubSeq(period, 1, FirstAt(period, "-") - 1))
         THEN DigitsValue(SubSeq(period, 1, FirstAt(period, "-") - 1))
         ELSE 0
    ELSE IF isdigit(period) /\ Len(period) = 4 THEN DigitsValue(period)
    ELSE 0

\* extract_year_from_period of helpers.py: four digits in both formats
extract_year_from_period(period) ==
    IF HasChar(period, "-")
    THEN IF /\ isdigit(SubSeq(period, 1, FirstAt(period, "-") - 1))
            /\ FirstAt(period, "-") = 5
         THEN DigitsValue(SubSeq(period, 1, FirstAt(period, "-") - 1))
         ELSE 0
    ELSE IF isdigit(period) /\ Len(period) = 4 THEN DigitsValue(period)
    ELSE 0

\* the dated point of a revenue with a value, None for one without a year
PointOf(period, value) ==
    IF ~Truthy(period) THEN Ok(Null)
    ELSE IF period.t # "str" THEN Raise("TypeError")
    ELSE IF YearOf(period.s) = 0 THEN Ok(Null)
    ELSE Ok([year |-> YearOf(period.s), value |-> value])

\* the dated point of one entry of revenues, None for an entry that is skipped
Dated(revenue) ==
    IF revenue.t # "dict" THEN Raise("AttributeError")
    ELSE IF PyGet(revenue, "value") = Null THEN Ok(Null)
    ELSE PointOf(PyGet(revenue, "period"), PyGet(revenue, "value"))

\* the points kept, in the order of the entries
RECURSIVE Points(_)
Points(outs) ==
    IF outs = <<>> THEN <<>>
    ELSE IF Head(outs).v = Null THEN Points(Tail(outs))
    ELSE <<Head(outs).v>> \o Points(Tail(outs))

\* the first and the last point after the stable sort by year
Earliest(points) ==
    points[CHOOSE i \in 1..Len(points) :
              \A j \in 1..Len(points) :
                  \/ points[i].year < points[j].year
                  \/ points[i].year = points[j].year /\ i <= j]

Latest(points) ==
    points[CHOOSE i \in 1..Len(points) :
              \A j \in 1..Len(points) :
                  \/ points[j].year < points[i].year
                  \/ points[i].year = points[j].year /\ j <= i]

\* the claimed CAGR of the market analysis, None when there is none
ClaimedCagr(analysis) ==
    IF "MarketAnalysis" \notin DOMAIN analysis.d THEN Ok(Null)
    ELSE IF "cagr" \notin DOMAIN analysis.d.MarketAnalysis.d THEN Ok(Null)
    ELSE IF analysis.d.MarketAnalysis.d.cagr.t # "dict" THEN Raise("AttributeError")
    ELSE IF PyGetD(analysis.d.MarketAnalysis.d.cagr, "claimed", Str("")).t # "str" THEN Ok(Null)
    ELSE IF PyFloat(Without1(PyGetD(analysis.d.MarketAnalysis.d.cagr, "claimed", Str("")).s, "%")).ok
    THEN PyFloat(Without1(PyGetD(analysis.d.MarketAnalysis.d.cagr, "claimed", Str("")).s, "%"))
    ELSE Ok(Null)

RatPow(x, n) == Rat(Pow(x.num, n), Pow(x.den, n))

\* ratio ** (1/years) - 1 against a percentage, for a ratio that is not
\* negative: the root is compared through the power of the other side
GrowthAbove(ratio, years, pct) ==
    \/ RatLess(RatAdd(Num(1), RatDiv(pct, Num(100))), Num(0))
    \/ RatLess(RatPow(RatAdd(Num(1), RatDiv(pct, Num(100))), years), ratio)

GrowthBelow(ratio, years, pct) ==
    /\ RatLess(Num(0), RatAdd(Num(1), RatDiv(pct, Num(100))))
    /\ RatLess(ratio, RatPow(RatAdd(Num(1), RatDiv(pct, Num(100))), years))

\* abs(claimed_cagr - calculated_cagr_pct) > tolerance
BeyondTolerance(ratio, years, claimed) ==
    \/ GrowthAbove(ratio, years, RatAdd(claimed, Num(5)))
    \/ GrowthBelow(ratio, years, RatAdd(claimed, Num(-5)))

\* the largest calculated CAGR taken to one decimal, in tenths of a percent
MaxTenths == 2000

\* the largest n of lo..hi with calculated_cagr_pct >= n/10 - 0.05
RECURSIVE TenthsIn(_, _, _, _)
TenthsIn(ratio, years, lo, hi) ==
    IF lo = hi THEN lo
    ELSE IF ~GrowthBelow(ratio, years, Rat(2 * ((lo + hi + 1) \div 2) - 1, 20))
    THEN TenthsIn(ratio, years, (lo + hi + 1) \div 2, hi)
    ELSE TenthsIn(ratio, years, lo, ((lo + hi + 1) \div 2) - 1)

\* calculated_cagr_pct to one decimal, in tenths of a percent
Tenths(ratio, years) == TenthsIn(ratio, years, -1000, MaxTenths)

\* f"{pct:.1f}%" for tenths of a percent
FormatTenths(n) ==
    (IF n < 0 THEN "-" ELSE "") \o ToString(Abs(n) \div 10) \o "."
        \o ToString(Abs(n) % 10) \o "%"

\* the claimed CAGR against the one calculated
Compared(ratio, years, claimed, analysis) ==
    IF ~claimed.ok THEN claimed
    ELSE IF claimed.v = Null THEN Ok(NoFindings)
    ELSE IF BeyondTolerance(ratio, years, claimed.v)
    THEN Ok(OneFinding(Issue("MarketAnalysis", "cagr", "medium"),
                       Fix("MarketAnalysis", "cagr.validated",
                           PyGet(analysis.d.MarketAnalysis.d.cagr, "validated"),
                           Str(FormatTenths(Tenths(ratio, years))))))
    ELSE Ok(NoFindings)

\* the CAGR between the earliest and the latest point
Between(first, last, analysis) ==
    IF first.value.t # "num" THEN Raise("TypeError")
    ELSE IF ~RatLess(Num(0), first.value) \/ last.year - first.year <= 0 THEN Ok(NoFindings)
    ELSE IF last.value.t # "num" THEN Raise("TypeError")
    ELSE Compared(RatDiv(last.value, first.value), last.year - first.year,
                  ClaimedCagr(analysis), analysis)

\* the rule on the dated points of the entries
CagrOf(dated, analysis) ==
    IF ~FirstRaise(dated).ok THEN FirstRaise(dated)
    ELSE IF Len(Points(dated)) < 2 THEN Ok(NoFindings)
    ELSE Between(Earliest(Points(dated)), Latest(Points(dated)), analysis)

\* except Exception: the rule finds nothing
Caught(out) == IF out.ok THEN out ELSE Ok(NoFindings)

Revenues(normalized) ==
    PyGetD(PyGetD(normalized, "finance", EmptyDict), "revenues", EmptyList)

_check_cagr_calculations(normalized, analysis) ==
    IF Len(Revenues(normalized).l) < 2 THEN Ok(NoFindings)
    ELSE Caught(CagrOf([i \in 1..Len(Revenues(normalized).l) |->
                           Dated(Revenues(normalized).l[i])], analysis))

\* the segments of "a:b" before and after the first colon, the second one
\* ending at the next colon
BeforeColon(s) == SubSeq(s, 1, FirstAt(s, ":") - 1)

AfterColon(s) ==
    IF HasChar(SubSeq(s, FirstAt(s, ":") + 1, Len(s)), ":")
    THEN BeforeColon(SubSeq(s, FirstAt(s, ":") + 1, Len(s)))
    ELSE SubSeq(s, FirstAt(s, ":") + 1, Len(s))

\* numerator / denominator if denominator else None
Quotient(numerator, denominator) ==
    IF ~numerator.ok THEN numerator
    ELSE IF ~denominator.ok THEN denominator
    ELSE IF denominator.v.num = 0 THEN Ok(Null)
    ELSE Ok(RatDiv(numerator.v, denominator.v))

\* the ratio of a claimed "7:1", "7" or 7
RatioOf(claimed) ==
    CASE claimed.t = "str" /\ HasChar(claimed.s, ":") ->
            Quotient(PyFloat(BeforeColon(claimed.s)), PyFloat(AfterColon(claimed.s)))
      [] claimed.t = "str" -> PyFloat(claimed.s)
      [] claimed.t = "num" -> Ok(claimed)
      [] OTHER -> Raise("TypeError")

\* a ratio above 10 is unusually high
HighRatio(ratio, ltv_cac_data) ==
    IF ~ratio.ok THEN ratio
    ELSE IF ratio.v # Null /\ RatLess(Num(10), ratio.v)
    THEN Ok(OneFinding(Issue("ProductMarketFit", "ltv_cac", "low"),
                       Fix("ProductMarketFit", "ltv_cac.validated",
                           PyGet(ltv_cac_data, "validated"), Str("3:1"))))
    ELSE Ok(NoFindings)

_check_ltvcac_ratio(normalized, analysis) ==
    IF "ProductMarketFit" \notin DOMAIN analysis.d THEN Ok(NoFindings)
    ELSE IF "ltv_cac" \notin DOMAIN analysis.d.ProductMarketFit.d THEN Ok(NoFindings)
    ELSE IF analysis.d.ProductMarketFit.d.ltv_cac.t # "dict" THEN Raise("AttributeError")
    ELSE IF ~Truthy(PyGet(analysis.d.ProductMarketFit.d.ltv_cac, "claimed")) THEN Ok(NoFindings)
    ELSE Caught(HighRatio(RatioOf(PyGet(analysis.d.ProductMarketFit.d.ltv_cac, "claimed")),
                          analysis.d.ProductMarketFit.d.ltv_cac))

\* the categories in the order the providers enter them into the analysis results
CategoryOrder ==
    <<"MarketAnalysis", "CompetitiveLandscape", "ProductMarketFit", "Finance",
      "WhyAnalysis", "Scalability">>

\* the scores are 1 or more apart
AtLeastOneApart(analysis_score, scoring_raw) ==
    \/ RatLeq(RatAdd(scoring_raw, Num(1)), analysis_score)
    \/ RatLeq(RatAdd(analysis_score, Num(1)), scoring_raw)

\* abs(analysis_score - scoring_raw) > 1
ScoresApart(analysis_score, scoring_raw) ==
    \/ RatLess(RatAdd(scoring_raw, Num(1)), analysis_score)
    \/ RatLess(RatAdd(analysis_score, Num(1)), scoring_raw)

\* the analysis score of a category against the raw score of the scoring
ScoreMismatch(category, analysis_score, scoring_raw) ==
    IF ~scoring_raw.ok THEN scoring_raw
    ELSE IF scoring_raw.v = Null THEN Ok(NoFindings)
    ELSE IF analysis_score.t # "num" \/ scoring_raw.v.t # "num" THEN Raise("TypeError")
    ELSE IF ScoresApart(analysis_score, scoring_raw.v)
    THEN Ok(OneFinding(Issue("Scoring", category \o ".raw_score", "medium"),
                       Fix("Scoring", "category_scores." \o category \o ".raw_score",
                           scoring_raw.v, analysis_score)))
    ELSE Ok(NoFindings)

\* one category of the analysis results
CategoryMismatch(category, analysis, category_scores) ==
    IF /\ category \in DOMAIN analysis.d
       /\ category \in DOMAIN category_scores.d
       /\ "category_average" \in DOMAIN analysis.d[category].d
    THEN ScoreMismatch(category, analysis.d[category].d.category_average,
                       GetOf(category_scores.d[category], "raw_score"))
    ELSE Ok(NoFindings)

_check_scoring_consistency(analysis, scores) ==
    IF "category_scores" \notin DOMAIN scores.d THEN Ok(NoFindings)
    ELSE Collected([i \in 1..Len(CategoryOrder) |->
                      CategoryMismatch(CategoryOrder[i], analysis, scores.d.category_scores)])

\* the metrics of a section that are present
PresentIn(analysis, section, metrics) ==
    IF section \in DOMAIN analysis.d
    THEN Cardinality(metrics \cap DOMAIN analysis.d[section].d)
    ELSE 0

_get_checked_fields_count(normalized, analysis) ==
    PresentIn(analysis, "MarketAnalysis", {"tam", "sam", "som", "cagr"})
    + PresentIn(analysis, "Finance", {"gross_margin", "ebitda", "valuation", "ask"})
    + PresentIn(analysis, "ProductMarketFit", {"ltv_cac", "retention"})
    + Len(Revenues(normalized).l)

\* the report of check for the findings of the rules; checked_at is the
\* time of the event loop
CheckResults(found, normalized, analysis) ==
    IF ~found.ok THEN found
    ELSE Ok(Dict([issues |-> List(found.v.issues),
                  fixes |-> List(found.v.fixes),
                  consistency_score |-> _calculate_consistency_score(found.v.issues),
                  checked_at |-> Str("time"),
                  checked_fields |-> Num(_get_checked_fields_count(normalized, analysis))]))

\* the five rules in order, the last one only for scores that are given
check(normalized, analysis, scores) ==
    CheckResults(
        Collected(<<_check_currency_consistency(normalized, analysis),
                    _check_market_size_hierarchy(normalized, analysis),
                    _check_cagr_calculations(normalized, analysis),
                    _check_ltvcac_ratio(normalized, analysis),
                    IF Truthy(scores) THEN _check_scoring_consistency(analysis, scores)
                    ELSE Ok(NoFindings)>>),
        normalized, analysis)

-----------------------------------------------------------------------------
(* One call of ConsistencyChecker.check on bounded inputs *)

SizeMetric(validated, unit) == Dict([validated |-> Str(validated), unit |-> Str(unit)])

CagrMetric(claimed) == Dict([claimed |-> Str(claimed), validated |-> Str("20%")])

MarketMetrics == {"tam", "sam", "som", "cagr"}

\* the entries a market analysis may hold under each metric: sizes in and out
\* of order, equal, zero, unparseable, in another unit, and one that is no object
MetricOptions(k) ==
    CASE k = "tam" -> {SizeMetric("$100M", "USD"), SizeMetric("$0", "USD"),
                       SizeMetric("$100M", "INR"), Str("n/a")}
      [] k = "sam" -> {SizeMetric("$150M", "USD"), SizeMetric("$100M", "USD"),
                       SizeMetric("$0", "USD"), SizeMetric("n/a", "USD")}
      [] k = "som" -> {SizeMetric("$25M", "USD"), SizeMetric("$150M", "USD")}
      [] k = "cagr" -> {CagrMetric("50%"), CagrMetric("55%")}

MarketAnalyses ==
    UNION { { Dict(f @@ [category_average |-> Num(8)]) :
                f \in { g \in [S -> UNION { MetricOptions(k) : k \in S }] :
                           \A k \in S : g[k] \in MetricOptions(k) } } :
            S \in SUBSET MarketMetrics }

\* the other sections: none, a high LTV/CAC ratio, a margin in another unit
OtherSections ==
    {<<>>,
     [ProductMarketFit |-> Dict([ltv_cac |-> Dict([claimed |-> Str("12:1"),
                                                   validated |-> Str("12:1")])])],
     [Finance |-> Dict([ebitda |-> SizeMetric("5M", "EUR"),
                        gross_margin |-> SizeMetric("60", "Percent")])],
     [ProductMarketFit |-> Dict([ltv_cac |-> Dict([claimed |-> Str("3:1")])]),
      Finance |-> Dict([category_average |-> Num(3)])]}

CheckAnalyses ==
    { Dict([MarketAnalysis |-> m] @@ o) : m \in MarketAnalyses, o \in OtherSections }

Revenue(period, value) == Dict([period |-> Str(period), value |-> value])

\* the revenues of the normalized pitch: none, two years apart, out of
\* order, two-digit years, fiscal years, and an entry without a value
RevenueChoices ==
    {<<>>,
     <<Revenue("2021", Num(100)), Revenue("2023", Num(144))>>,
     <<Revenue("2023", Num(144)), Revenue("2021", Num(100))>>,
     <<Revenue("19-20", Num(100)), Revenue("21-22", Num(144))>>,
     <<Revenue("2021-22", Num(100)), Revenue("2022-23", Null), Revenue("2023-24", Num(225))>>}

NormalizedWith(revenues) ==
    Dict([units |-> Dict([base_currency |-> USD]),
          finance |-> Dict([revenues |-> List(revenues)])])

\* a scoring result with the raw scores of two categories
ScoresWith(market, finance) ==
    Dict([category_scores |-> Dict([MarketAnalysis |-> Dict([raw_score |-> Num(market)]),
                                    Finance |-> Dict([raw_score |-> Num(finance)])])])

\* no scoring result; raw scores equal to the averages 8 and 3, one and two
\* away from them on either side; and a result that scores the market alone
ScoresChoices ==
    {Null, ScoresWith(8, 3), ScoresWith(7, 5), ScoresWith(6, 4),
     Dict([category_scores |-> Dict([MarketAnalysis |-> Dict([raw_score |-> Num(5)])])])}

CheckInputs ==
    [normalized_data : { NormalizedWith(r) : r \in RevenueChoices },
     analysis_results : CheckAnalyses,
     scores : ScoresChoices]

\* the arguments with the corrected SAM of the report stored into the analysis
FixesWritten(arguments, report) ==
    IF ~report.ok
       \/ SelectSeq(report.v.d.fixes.l, LAMBDA f : f.d.field = Str("sam.validated")) = <<>>
    THEN arguments
    ELSE [arguments EXCEPT
            !.analysis_results.d.MarketAnalysis.d.sam.d.validated =
                SelectSeq(report.v.d.fixes.l,
                          LAMBDA f : f.d.field = Str("sam.validated"))[1].d.corrected]

\* the three arguments as check leaves them: check and its rules read them and
\* append to lists of their own only, no statement stores into an argument
ArgumentsAfter(arguments, report) == arguments

\* check(normalized_data, analysis_results, scores)
Check ==
    /\ check_out = NotCalled
    /\ check_out' = check(check_in.normalized_data, check_in.analysis_results,
                          check_in.scores)
    /\ check_in' = ArgumentsAfter(check_in, check_out')
    /\ UNCHANGED <<nvars, svars, ovars, cvars, ivars, yvars>>

InitCheck ==
    /\ check_in \in CheckInputs
    /\ check_out = NotCalled
    /\ IdleNorm
    /\ IdleScore
    /\ IdleOrch
    /\ IdleConv
    /\ IdleIssues
    /\ IdleLater

NextCheck == Check

SpecCheck == InitCheck /\ [][NextCheck]_vars

-----------------------------------------------------------------------------
(* Properties of check *)

\* the outcomes of the five rules on the inputs of the call
RuleOutcomes ==
    <<_check_currency_consistency(check_in.normalized_data, check_in.analysis_results),
      _check_market_size_hierarchy(check_in.normalized_data, check_in.analysis_results),
      _check_cagr_calculations(check_in.normalized_data, check_in.analysis_results),
      _check_ltvcac_ratio(check_in.normalized_data, check_in.analysis_results),
      IF Truthy(check_in.scores)
      THEN _check_scoring_consistency(check_in.analysis_results, check_in.scores)
      ELSE Ok(NoFindings)>>

\* C13: check never raises: a rule that cannot evaluate its inputs contributes
\* no issue and no fix, and the report holds the issues and fixes of every
\* other rule.
C13_RulesIsolated ==
    check_out # NotCalled =>
        check_out = CheckResults(Collected([i \in 1..5 |-> Caught(RuleOutcomes[i])]),
                                 check_in.normalized_data, check_in.analysis_results)

\* the market analysis given to check
Market == check_in.analysis_results.d.MarketAnalysis

\* the value parsed from the validated string of a metric, None without one
Parsed(metric) ==
    IF metric \in DOMAIN Market.d /\ Market.d[metric].t = "dict"
    THEN SizeOf(PyGet(Market.d[metric], "validated"))
    ELSE Null

\* the issues and the fixes of the report that name a field
IssuesFor(field) == SelectSeq(check_out.v.d.issues.l, LAMBDA i : i.d.field = Str(field))
FixesFor(field) == SelectSeq(check_out.v.d.fixes.l, LAMBDA f : f.d.field = Str(field))

\* both values are known and the parent does not exceed the child
NotAbove(parent, child) == parent # Null /\ child # Null /\ RatLeq(parent, child)

\* one high issue exactly when the level is violated
LevelIssue(parent, child, field) ==
    IssuesFor(field) = IF NotAbove(parent, child)
                       THEN <<Issue("MarketAnalysis", field, "high")>>
                       ELSE <<>>

\* the fix that sets the child to 25% of its parent
QuarterFix(parent, metric) ==
    Fix("MarketAnalysis", metric \o ".validated", PyGet(Market.d[metric], "validated"),
        Str("$" \o FormatThousands(RatMul(parent, Rat(1, 4)))))

HierarchyIssues ==
    /\ LevelIssue(Parsed("tam"), Parsed("sam"), "tam_sam_hierarchy")
    /\ LevelIssue(Parsed("sam"), Parsed("som"), "sam_som_hierarchy")

\* C14 as stated: one high issue exactly when TAM <= SAM and when SAM <= SOM,
\* and every such issue comes with a fix setting the child to 25% of its parent.
C14_EveryIssueHasFix ==
    check_out.ok =>
        /\ HierarchyIssues
        /\ FixesFor("sam.validated")
              = IF NotAbove(Parsed("tam"), Parsed("sam"))
                THEN <<QuarterFix(Parsed("tam"), "sam")>> ELSE <<>>
        /\ FixesFor("som.validated")
              = IF NotAbove(Parsed("sam"), Parsed("som"))
                THEN <<QuarterFix(Parsed("sam"), "som")>> ELSE <<>>

\* C14: one high issue tam_sam_hierarchy exactly when TAM <= SAM and one high
\* issue sam_som_hierarchy exactly when SAM <= SOM, equality included; the
\* issue comes with a fix setting the child to 25% of its parent exactly when
\* the parent is positive, and with no fix otherwise.
C14_FixForPositiveParent ==
    check_out.ok =>
        /\ HierarchyIssues
        /\ FixesFor("sam.validated")
              = IF NotAbove(Parsed("tam"), Parsed("sam")) /\ RatLess(Num(0), Parsed("tam"))
                THEN <<QuarterFix(Parsed("tam"), "sam")>> ELSE <<>>
        /\ FixesFor("som.validated")
              = IF NotAbove(Parsed("sam"), Parsed("som")) /\ RatLess(Num(0), Parsed("sam"))
                THEN <<QuarterFix(Parsed("sam"), "som")>> ELSE <<>>

\* TAM = $100M with SAM = $150M: one high issue, and the fix SAM = $25,000,000
C14_Witness ==
    /\ check_out.ok
    /\ Parsed("tam") = Num(100000000)
    /\ Parsed("sam") = Num(150000000)
    /\ Parsed("som") = Null
    /\ SelectSeq(check_out.v.d.issues.l, LAMBDA i : i.d.severity = Str("high"))
          = <<Issue("MarketAnalysis", "tam_sam_hierarchy", "high")>>
    /\ FixesFor("sam.validated")
          = <<Fix("MarketAnalysis", "sam.validated", Str("$150M"), Str("$25,000,000"))>>

\* the revenues given to check
RevenueEntries == Revenues(check_in.normalized_data).l

\* the dated point of an entry whose period starts with a four-digit year
\* and whose value is not null, None for any other entry
FourDigitPoint(revenue) ==
    IF PyGet(revenue, "value") = Null THEN Ok(Null)
    ELSE IF PyGet(revenue, "period").t # "str" THEN Ok(Null)
    ELSE IF extract_year_from_period(PyGet(revenue, "period").s) = 0 THEN Ok(Null)
    ELSE Ok([year |-> extract_year_from_period(PyGet(revenue, "period").s),
             value |-> PyGet(revenue, "value")])

\* the findings of the CAGR rule on the entries with a four-digit year
FromFourDigitYears ==
    Caught(CagrOf([i \in 1..Len(RevenueEntries) |-> FourDigitPoint(RevenueEntries[i])],
                  check_in.analysis_results))

\* C15: the CAGR rule uses only the revenue entries whose period starts with a
\* four-digit year and whose value is not null; from the earliest and the
\* latest of them it emits one medium issue, with a fix set to the calculated
\* value, exactly when the claimed CAGR is more than 5 points from the
\* calculated one, and nothing in every other case.
C15_CagrFromFourDigitYears ==
    check_out.ok =>
        /\ IssuesFor("cagr") = FromFourDigitYears.v.issues
        /\ FixesFor("cagr.validated") = FromFourDigitYears.v.fixes

-----------------------------------------------------------------------------
(* Properties of the score-consistency rule *)

\* the categories named by the analysis results or by the scoring result
CheckedCategories ==
    DOMAIN check_in.analysis_results.d
    \cup (IF check_in.scores = Null THEN {} ELSE DOMAIN check_in.scores.d.category_scores.d)

\* the category has an average in the analysis and a raw score in the scoring
InBoth(c) ==
    /\ check_in.scores # Null
    /\ c \in DOMAIN check_in.analysis_results.d
    /\ "category_average" \in DOMAIN check_in.analysis_results.d[c].d
    /\ c \in DOMAIN check_in.scores.d.category_scores.d

AverageIn(c) == check_in.analysis_results.d[c].d.category_average
RawIn(c) == check_in.scores.d.category_scores.d[c].d.raw_score

\* |category_average - raw_score|
Distance(c) ==
    IF RatLess(AverageIn(c), RawIn(c))
    THEN Rat(RawIn(c).num * AverageIn(c).den - AverageIn(c).num * RawIn(c).den,
             RawIn(c).den * AverageIn(c).den)
    ELSE Rat(AverageIn(c).num * RawIn(c).den - RawIn(c).num * AverageIn(c).den,
             RawIn(c).den * AverageIn(c).den)

Inconsistent(c) == InBoth(c) /\ RatLess(Num(1), Distance(c))

\* the issues and the fixes of the report in the section Scoring
ScoringIssues == SelectSeq(check_out.v.d.issues.l, LAMBDA i : i.d.section = Str("Scoring"))
ScoringFixes == SelectSeq(check_out.v.d.fixes.l, LAMBDA f : f.d.section = Str("Scoring"))

\* C25: the rule runs only when a scoring result is given; for each category
\* with a category_average in the analysis results and an entry in
\* scores.category_scores it emits one medium issue and one fix whose corrected
\* value is the category_average exactly when |category_average - raw_score| > 1,
\* a difference of 1 being accepted; it emits nothing for any other category.
C25_IssueIffMoreThanOneApart ==
    check_out.ok =>
        /\ \A c \in CheckedCategories :
              /\ IssuesFor(c \o ".raw_score")
                    = IF Inconsistent(c)
                      THEN <<Issue("Scoring", c \o ".raw_score", "medium")>>
                      ELSE <<>>
              /\ FixesFor("category_scores." \o c \o ".raw_score")
                    = IF Inconsistent(c)
                      THEN <<Fix("Scoring", "category_scores." \o c \o ".raw_score",
                                 RawIn(c), AverageIn(c))>>
                      ELSE <<>>
        /\ Len(ScoringIssues) = Cardinality({ c \in CheckedCategories : Inconsistent(c) })
        /\ Len(ScoringFixes) = Len(ScoringIssues)

\* the market's raw score 6 is two below its average 8 and is reported, the
\* finance raw score 4 is one above its average 3 and is accepted
C25_Witness ==
    /\ check_out.ok
    /\ check_in.scores = ScoresWith(6, 4)
    /\ InBoth("Finance") /\ Distance("Finance") = Num(1)
    /\ ScoringIssues = <<Issue("Scoring", "MarketAnalysis.raw_score", "medium")>>
    /\ ScoringFixes = <<Fix("Scoring", "category_scores.MarketAnalysis.raw_score",
                            Num(6), Num(8))>>

-----------------------------------------------------------------------------
(* ScoringEngine.score followed by ConsistencyChecker.check on its result *)

\* the ScoringResult as the dict score returns
ResultDict(r) ==
    Dict([category_scores |->
              Dict([c \in DOMAIN r.category_scores |-> Dict(r.category_scores[c])]),
          overall_raw |-> r.overall_raw,
          overall_adjusted |-> r.overall_adjusted,
          scoring_version |-> Str("2.1")])

\* check(normalized_data, analysis_results, scores) with the scores of score
CheckScored ==
    /\ sout # NotCalled
    /\ check_out = NotCalled
    /\ check_in' = [normalized_data |-> NormalizedWith(<<>>),
                    analysis_results |-> analyses,
                    scores |-> ResultDict(sout.v)]
    /\ check_out' = check(NormalizedWith(<<>>), analyses, ResultDict(sout.v))
    /\ UNCHANGED <<nvars, svars, ovars, cvars, ivars, yvars>>

NextScored == Score \/ CheckScored

SpecScored == InitScore /\ [][NextScored]_vars

\* C26: when check is given the ScoringResult that score produced from the same
\* analysis results, with or without research, the score-consistency rule
\* emits no issue and no fix, error-shaped and missing categories included.
C26_OwnScoresConsistent ==
    check_out # NotCalled =>
        /\ check_out.ok
        /\ ScoringIssues = <<>>
        /\ ScoringFixes = <<>>

\* research lowered the market's score from 9 to 8, the finance provider
\* failed, both are in category_scores, and check reports nothing on scoring
C26_Witness ==
    /\ check_out # NotCalled /\ check_out.ok
    /\ research = ResearchResult(49)
    /\ analyses = Dict([MarketAnalysis |-> Dict([category_average |-> Num(9)]),
                        Finance |-> ErrorResult("boom")])
    /\ check_in.scores.d.category_scores.d.MarketAnalysis.d.adjusted_score = Num(8)
    /\ "Finance" \in DOMAIN check_in.scores.d.category_scores.d
    /\ ScoringIssues = <<>>

-----------------------------------------------------------------------------
(* Properties of the fixes of the hierarchy rule *)

\* the metric with its validated value replaced by the corrected value of the
\* fix the report proposes for it, unchanged when there is none
Corrected(metric) ==
    IF FixesFor(metric \o ".validated") = <<>> THEN Market.d[metric]
    ELSE Dict([k \in DOMAIN Market.d[metric].d |->
                 IF k = "validated"
                 THEN FixesFor(metric \o ".validated")[1].d.corrected
                 ELSE Market.d[metric].d[k]])

\* the analysis results after every proposed fix of a market size is applied
FixesApplied ==
    Dict([c \in DOMAIN check_in.analysis_results.d |->
            IF c # "MarketAnalysis" THEN check_in.analysis_results.d[c]
            ELSE Dict([m \in DOMAIN Market.d |->
                         IF m \in {"sam", "som"} THEN Corrected(m) ELSE Market.d[m]])])

\* the rule reported a violation of the hierarchy for a positive TAM
ViolationReported ==
    /\ check_out.ok
    /\ Parsed("tam") # Null /\ RatLess(Num(0), Parsed("tam"))
    /\ IssuesFor("tam_sam_hierarchy") \o IssuesFor("sam_som_hierarchy") # <<>>

\* the sizes after the fixes
SizeAfter(metric) ==
    IF metric \in DOMAIN Market.d /\ FixesApplied.d.MarketAnalysis.d[metric].t = "dict"
    THEN SizeOf(PyGet(FixesApplied.d.MarketAnalysis.d[metric], "validated"))
    ELSE Null

\* no level of the hierarchy is violated by the sizes after the fixes
Repaired ==
    /\ ~NotAbove(SizeAfter("tam"), SizeAfter("sam"))
    /\ ~NotAbove(SizeAfter("sam"), SizeAfter("som"))
    /\ _check_market_size_hierarchy(check_in.normalized_data, FixesApplied)
          = Ok(NoFindings)

\* C27: whenever the rule reports a violation for a TAM above 0, applying the
\* corrected values of all the fixes it proposed gives TAM > SAM > SOM, and
\* the rule run on the corrected values reports no issue.
C27_FixesRepairHierarchy == ViolationReported => Repaired

-----------------------------------------------------------------------------
(* Properties of the arguments of check *)

-----------------------------------------------------------------------------
(* schema_normalizer.py: the canonical template across calls of normalize *)

MaxCalls == 2

\* the sections that dict(obj) would share with obj: all of them
ShallowShares(obj) == DOMAIN obj.d

\* the sections of _deep_copy(obj) that are the very objects obj holds: none,
\* every dict and every list is built anew at each level
CopyShares(obj) == {}

\* canonical after the assignments of normalize: each section of the copy keeps
\* its keys and takes the mapped fields; extras is bound to a new dict
Assigned(copy, mapped) ==
    Dict([s \in DOMAIN copy.d |->
            IF s = "extras" THEN mapped.d[s]
            ELSE Dict(mapped.d[s].d @@ copy.d[s].d)])

\* normalize on the template the class holds at the time of the call
NormalizeFrom(schema, raw_doc, config) ==
    IF normalize(raw_doc, config).ok
    THEN Ok(Assigned(_deep_copy(schema), normalize(raw_doc, config).v))
    ELSE normalize(raw_doc, config)

\* the template after a call: a section the copy shares with it is the
\* section normalize assigned into
TemplateAfter(schema, shared, canonical) ==
    Dict([s \in DOMAIN schema.d |->
            IF s \in shared /\ s # "extras" THEN canonical.d[s] ELSE schema.d[s]])

\* the raw documents of the calls: no extraction, two extractions, and one
\* that makes normalize raise
TemplateDocs ==
    {Dict([clientId |-> Str("c1")]),
     Dict([clientId |-> Str("c1"), source |-> Str("upload"),
           extraction |-> Dict([company_name |-> Str("x"),
                                tam |-> Amount(Num(8700), "INR")])]),
     Dict([clientId |-> Str("c2"),
           extraction |-> Dict([USP |-> Str("x"),
                                founders |-> List(<<Dict([name |-> Str("Ann"),
                                                          title |-> Str("CEO")])>>)])]),
     Dict([clientId |-> Str("c1"), extraction |-> Str("scanned text")])}

\* what a caller may do to a NormalizedPitch it holds: overwrite a field, add
\* a field, empty a list, delete a field
WriteChoices ==
    {[section |-> "market", key |-> "tam", value |-> Str("edited")],
     [section |-> "metadata", key |-> "reviewed", value |-> Str("yes")],
     [section |-> "team", key |-> "founders", value |-> List(<<Str("Zed")>>)],
     [section |-> "units", key |-> "base_currency", value |-> Null]}

\* obj[section][key] = value, and del obj[section][key] for the value None
Written(obj, w) ==
    Dict([s \in DOMAIN obj.d |->
            IF s # w.section THEN obj.d[s]
            ELSE IF w.value = Null
            THEN Dict([k \in DOMAIN obj.d[s].d \ {w.key} |-> obj.d[s].d[k]])
            ELSE Dict((w.key :> w.value) @@ obj.d[s].d)])

\* one call: its document, its outcome, the object the caller holds, the
\* sections that object shares with the template, and what the callers of the
\* earlier calls held at the time
CallOf(raw_doc, out, shared, earlier) ==
    [raw |-> raw_doc,
     returned |-> out,
     held |-> IF out.ok THEN out.v ELSE Null,
     shared |-> IF out.ok THEN shared ELSE {},
     earlier |-> earlier]

\* normalize(raw_doc) on the class
NormalizeAgain ==
    /\ Len(calls) < MaxCalls
    /\ \E raw_doc \in TemplateDocs :
          /\ calls' = Append(calls,
                             CallOf(raw_doc,
                                    NormalizeFrom(template, raw_doc, DefaultConfig),
                                    CopyShares(template),
                                    [i \in 1..Len(calls) |-> calls[i].held]))
          /\ template' = IF NormalizeFrom(template, raw_doc, DefaultConfig).ok
                         THEN TemplateAfter(template, CopyShares(template),
                                            NormalizeFrom(template, raw_doc,
                                                          DefaultConfig).v)
                         ELSE template
    /\ UNCHANGED <<nvars, svars, ovars, cvars, kvars, ivars, gvars, vvars, rvars>>

\* a caller modifies the NormalizedPitch a call returned to it
CallerWrites ==
    /\ \E i \in 1..Len(calls), w \in WriteChoices :
          /\ calls[i].held # Null
          /\ calls' = [calls EXCEPT ![i].held = Written(calls[i].held, w)]
          /\ template' = IF w.section \in calls[i].shared
                         THEN Written(template, w)
                         ELSE template
    /\ UNCHANGED <<nvars, svars, ovars, cvars, kvars, ivars, gvars, vvars, rvars>>

InitTemplate ==
    /\ template = CANONICAL_SCHEMA
    /\ calls = <<>>
    /\ IdleNorm
    /\ IdleScore
    /\ IdleOrch
    /\ IdleConv
    /\ IdleCheck
    /\ IdleIssues
    /\ IdleConfig
    /\ IdleValidate
    /\ IdleRuns

NextTemplate == NormalizeAgain \/ CallerWrites

SpecTemplate == InitTemplate /\ [][NextTemplate]_vars

-----------------------------------------------------------------------------
(* config.py: constructions of Config on one class *)

MaxConfigs == 2

PyTrue == [t |-> "bool", b |-> TRUE]

\* Config.DEFAULT_CONFIG as the class is loaded; the connection string of the
\* source is written as a placeholder
DEFAULT_CONFIG ==
    Dict([mongodb |-> Dict([uri |-> Str("built-in uri"),
                            database |-> Str("pitchfynd-dev"),
                            collection |-> Str("pitches")]),
          currency |-> Dict([base |-> USD, rates |-> Dict(ConfigDefaultRates)]),
          scoring |-> Dict([weights |-> Dict(ConfigDefaultWeights),
                            thresholds |-> Dict([excellent |-> Rat(85, 10),
                                                 good |-> Num(7),
                                                 average |-> Num(5),
                                                 below_average |-> Num(3)])]),
          web_research |-> Dict([enabled |-> PyTrue, api_key |-> Str(""),
                                 max_searches |-> Num(10)]),
          output |-> Dict([schema_version |-> Str("1.0")])])

\* original after _deep_update(original, update)
RECURSIVE _deep_update(_, _)
_deep_update(original, update) ==
    Dict([key \in DOMAIN original.d \cup DOMAIN update.d |->
            IF key \notin DOMAIN update.d THEN original.d[key]
            ELSE IF /\ key \in DOMAIN original.d
                    /\ original.d[key].t = "dict"
                    /\ update.d[key].t = "dict"
            THEN _deep_update(original.d[key], update.d[key])
            ELSE update.d[key]])

\* the top-level keys of dict(obj) whose value is the object obj holds: all
SharedByCopy(obj) == DOMAIN obj.d

\* the keys of config_data that still hold an object of the class after the
\* file is loaded: a key the file rebinds holds the file's value instead
SharedAfterFile(shared, original, file_config) ==
    IF file_config = Null THEN shared
    ELSE { key \in shared :
             key \notin DOMAIN file_config.d
             \/ (original.d[key].t = "dict" /\ file_config.d[key].t = "dict") }

\* config_data as the instance sees it after _load_from_file
AfterFile(original, file_config) ==
    IF file_config = Null THEN original ELSE _deep_update(original, file_config)

\* data[section][key] = value, the section created when it is missing
SetIn(data, section, key, value) ==
    Dict((section :> Dict((key :> value) @@ PyGetD(data, section, EmptyDict).d)) @@ data.d)

\* config_data after _load_from_env for the environment env
AfterMongo(data, env) ==
    IF "MONGO_URI" \in DOMAIN env
    THEN SetIn(data, "mongodb", "uri", Str(env["MONGO_URI"]))
    ELSE data

AfterProvider(data, env) ==
    IF "LLM_PROVIDER" \in DOMAIN env
    THEN SetIn(data, "llm", "provider", Str(env["LLM_PROVIDER"]))
    ELSE data

AfterSerper(data, env) ==
    IF "SERPER_API_KEY" \in DOMAIN env
    THEN SetIn(SetIn(data, "web_research", "api_key", Str(env["SERPER_API_KEY"])),
               "web_research", "enabled", PyTrue)
    ELSE data

_load_from_env(data, env) == AfterSerper(AfterProvider(AfterMongo(data, env), env), env)

\* config_data at the end of __init__(config_path) under the environment env
Constructed(defaults, file_config, env) ==
    _load_from_env(AfterFile(defaults, file_config), env)

\* the instance: the keys whose value is an object of the class, and the
\* values it holds under its other keys
InstanceOf(data, shared, file_config, env) ==
    [shared |-> shared,
     own |-> [key \in DOMAIN data.d \ shared |-> data.d[key]],
     file |-> file_config,
     env |-> env]

\* DEFAULT_CONFIG after the construction: the sections the instance shares with
\* the class are the objects the construction wrote into
DefaultsAfter(defaults, data, shared) ==
    Dict([key \in DOMAIN defaults.d |->
            IF key \in shared THEN data.d[key] ELSE defaults.d[key]])

\* config_data of an instance now
ConfigData(instance) ==
    Dict([key \in instance.shared \cup DOMAIN instance.own |->
            IF key \in instance.shared THEN default_config.d[key]
            ELSE instance.own[key]])

\* Config.get(key, default) on the dotted key
RECURSIVE GetParts(_, _, _)
GetParts(config, parts, default) ==
    IF parts = <<>> THEN config
    ELSE IF Head(parts) \notin DOMAIN config.d THEN default
    ELSE GetParts(config.d[Head(parts)], Tail(parts), default)

get(instance, key, default) == GetParts(ConfigData(instance), Split(key), default)

\* the configuration files: none, and files that override a rate, a weight,
\* the connection string, replace a section, add a section
FileChoices ==
    {Null,
     Dict([currency |-> Dict([rates |-> Dict([INR |-> Num(1)])])]),
     Dict([scoring |-> Dict([weights |-> Dict([Finance |-> Rat(1, 2)])])]),
     Dict([mongodb |-> Dict([uri |-> Str("file uri")])]),
     Dict([currency |-> Str("none")]),
     Dict([extra |-> Dict([a |-> Num(1)])])}

\* the environments: no override, and one variable set
EnvChoices ==
    {<<>>, [MONGO_URI |-> "env uri"], [SERPER_API_KEY |-> "key"], [LLM_PROVIDER |-> "x"]}

\* Config(config_path) under an environment
Construct ==
    /\ Len(instances) < MaxConfigs
    /\ \E file_config \in FileChoices, env \in EnvChoices :
          /\ instances' =
                Append(instances,
                       InstanceOf(Constructed(default_config, file_config, env),
                                  SharedAfterFile(SharedByCopy(default_config),
                                                  default_config, file_config),
                                  file_config, env))
          /\ default_config' =
                DefaultsAfter(default_config,
                              Constructed(default_config, file_config, env),
                              SharedAfterFile(SharedByCopy(default_config),
                                              default_config, file_config))
    /\ UNCHANGED <<nvars, svars, ovars, cvars, kvars, ivars, tvars, vvars, rvars>>

InitConfig ==
    /\ default_config = DEFAULT_CONFIG
    /\ instances = <<>>
    /\ IdleNorm
    /\ IdleScore
    /\ IdleOrch
    /\ IdleConv
    /\ IdleCheck
    /\ IdleIssues
    /\ IdleTemplate
    /\ IdleValidate
    /\ IdleRuns

NextConfig == Construct

SpecConfig == InitConfig /\ [][NextConfig]_vars

\* the keys read from a configuration
ReadKeys ==
    {"mongodb.uri", "mongodb.database", "currency.base", "currency.rates.INR",
     "currency.rates.EUR", "scoring.weights", "web_research.api_key",
     "web_research.enabled", "output.schema_version", "llm.provider", "extra"}

\* the instance was constructed without a file and without environment overrides
Plain(instance) == instance.file = Null /\ instance.env = <<>>

\* C30: after any sequence of constructions with file or environment overrides
\* DEFAULT_CONFIG has its initial value, and a Config constructed without
\* overrides returns the built-in default for every key.
C30_DefaultsIsolated ==
    /\ default_config = DEFAULT_CONFIG
    /\ \A i \in 1..Len(instances) :
          Plain(instances[i]) =>
              \A key \in ReadKeys :
                  get(instances[i], key, Null)
                     = GetParts(DEFAULT_CONFIG, Split(key), Null)

-----------------------------------------------------------------------------
(* schema_validator.py: SchemaValidator.validate on the default schema *)

\* {"type": t} and {"type": [t1, t2]}: isinstance(expected_type, list) is the flag
One(t) == [list |-> FALSE, types |-> <<t>>]
AnyOf(ts) == [list |-> TRUE, types |-> ts]

\* the properties of a schema are kept in the order the dict literal gives them
DEFAULT_SCHEMA ==
    [type |-> One("object"),
     required |-> <<"pitchId", "clientId", "metadata", "validation_summary",
                    "comments", "details", "summary">>,
     properties |-> <<
        <<"pitchId", [type |-> One("string")]>>,
        <<"clientId", [type |-> One("string")]>>,
        <<"metadata",
          [type |-> One("object"),
           required |-> <<"generated_at", "analysis_version">>,
           properties |-> <<
              <<"generated_at", [type |-> One("string"), format |-> "date-time"]>>,
              <<"analysis_version", [type |-> One("string")]>>,
              <<"data_sources_used", [type |-> One("integer")]>>,
              <<"total_validation_points", [type |-> One("integer")]>>,
              <<"processing_time_estimate", [type |-> One("string")]>> >>]>>,
        <<"validation_summary",
          [type |-> One("object"),
           properties |-> <<
              <<"MarketAnalysis", [type |-> One("object")]>>,
              <<"ProductMarketFit", [type |-> One("object")]>>,
              <<"Finance", [type |-> One("object")]>>,
              <<"CompetitiveLandscape", [type |-> One("object")]>>,
              <<"WhyAnalysis", [type |-> One("object")]>>,
              <<"Scalability", [type |-> One("object")]>> >>]>>,
        <<"comments", [type |-> One("array"), items |-> [type |-> One("string")]]>>,
        <<"details",
          [type |-> One("object"),
           properties |-> <<
              <<"name", [type |-> One("string")]>>,
              <<"about", [type |-> One("string")]>>,
              <<"status", [type |-> One("string")]>>,
              <<"founded_year", [type |-> AnyOf(<<"integer", "string">>)]>>,
              <<"CEO", [type |-> One("string")]>>,
              <<"headquaters", [type |-> One("string")]>>,
              <<"business_model", [type |-> One("string")]>>,
              <<"revenue", [type |-> One("string")]>>,
              <<"domain", [type |-> One("string")]>>,
              <<"sub-domain", [type |-> AnyOf(<<"string", "null">>)]>>,
              <<"problem", [type |-> AnyOf(<<"string", "null">>)]>>,
              <<"solution", [type |-> AnyOf(<<"string", "null">>)]>>,
              <<"usp", [type |-> AnyOf(<<"string", "null">>)]>> >>]>>,
        <<"summary", [type |-> One("string")]>>,
        <<"pros", [type |-> One("array"), items |-> [type |-> One("string")]]>>,
        <<"red_flags", [type |-> One("array"), items |-> [type |-> One("string")]]>>,
        <<"ai_questionnaire", [type |-> One("array"), items |-> [type |-> One("string")]]>>,
        <<"data_quality_assessment", [type |-> One("object")]>>,
        <<"forecasting_methodology", [type |-> One("object")]>>,
        <<"final_irs_score", [type |-> One("integer")]>>,
        <<"final_cs_score", [type |-> One("integer")]>>,
        <<"uniqueness", [type |-> One("integer")]>> >>]

\* schema.get("required", []) and schema.get("properties", {})
RequiredOf(schema) == IF "required" \in DOMAIN schema THEN schema.required ELSE <<>>
PropertiesOf(schema) == IF "properties" \in DOMAIN schema THEN schema.properties ELSE <<>>

\* schema.get("properties", {}).get(prop, {})
PropertySchema(schema, prop) ==
    LET props == PropertiesOf(schema)
    IN  IF \E i \in 1..Len(props) : props[i][1] = prop
        THEN props[CHOOSE i \in 1..Len(props) : props[i][1] = prop][2]
        ELSE <<>>

\* prop_schema.get("type") == "object"
IsObjectSchema(prop_schema) ==
    /\ "type" \in DOMAIN prop_schema
    /\ ~prop_schema.type.list
    /\ prop_schema.type.types[1] = "object"

\* prop_schema.get("type") == "array"
IsArraySchema(prop_schema) ==
    /\ "type" \in DOMAIN prop_schema
    /\ ~prop_schema.type.list
    /\ prop_schema.type.types[1] = "array"

\* datetime.datetime.now().isoformat(): some time stamp, a string
NowIso == Str("2025-01-01T00:00:00")

PyFalse == [t |-> "bool", b |-> FALSE]
PyBool(b) == IF b THEN PyTrue ELSE PyFalse

\* the floats inf, -inf and nan
Special(f) == [t |-> "float", f |-> f]

\* obj[key] = value
Assign(obj, key, value) == Dict((key :> value) @@ obj.d)

\* _get_default_value (lines 335-384)
_get_default_value(prop, prop_schema) ==
    IF "default" \in DOMAIN prop_schema THEN prop_schema.default
    ELSE IF "type" \notin DOMAIN prop_schema THEN Null
    ELSE LET prop_type == prop_schema.type.types[1]
         IN  CASE prop_type = "string" ->
                    IF \/ Contains(Lower(prop), "date")
                       \/ ("format" \in DOMAIN prop_schema
                             /\ prop_schema.format = "date-time")
                    THEN NowIso
                    ELSE IF Contains(Lower(prop), "id") THEN Str("unknown_id")
                    ELSE IF Contains(Lower(prop), "name") THEN Str("Unknown")
                    ELSE IF Contains(Lower(prop), "version") THEN Str("1.0")
                    ELSE Str("")
               [] prop_type = "number" -> Num(0)
               [] prop_type = "integer" -> Num(0)
               [] prop_type = "boolean" -> PyFalse
               [] prop_type = "array" -> EmptyList
               [] prop_type = "object" -> EmptyDict
               [] OTHER -> Null

\* _check_type (lines 244-270); a bool is an int to isinstance
_check_type(value, expected_type) ==
    CASE expected_type = "string" -> value.t = "str"
      [] expected_type = "number" -> value.t \in {"num", "bool", "float"}
      [] expected_type = "integer" ->
            \/ value.t = "bool"
            \/ value.t = "num" /\ value.den = 1
      [] expected_type = "boolean" -> value.t = "bool"
      [] expected_type = "array" -> value.t = "list"
      [] expected_type = "object" -> value.t = "dict"
      [] expected_type = "null" -> value.t = "null"
      [] OTHER -> FALSE

\* str(value), for None, strings, bools, whole numbers, floats with one
\* decimal, inf and nan, and the empty list and dict
str(value) ==
    CASE value.t = "null" -> "None"
      [] value.t = "str" -> value.s
      [] value.t = "bool" -> IF value.b THEN "True" ELSE "False"
      [] value.t = "float" -> value.f
      [] value.t = "num" /\ value.den = 1 -> ToString(value.num)
      [] value.t = "num" /\ value.den # 1 ->
            LET tenths == (Abs(value.num) * 10) \div value.den
            IN  (IF value.num < 0 THEN "-" ELSE "") \o ToString(tenths \div 10)
                    \o "." \o ToString(tenths % 10)
      [] value.t = "list" /\ value.l = <<>> -> "[]"
      [] value.t = "dict" /\ DOMAIN value.d = {} -> "{}"

\* float(value): a number, inf or nan, or ValueError for a string that is no
\* number, TypeError for None, a list or a dict
float(value) ==
    CASE value.t = "num" -> Ok(value)
      [] value.t = "float" -> Ok(value)
      [] value.t = "bool" -> Ok(Num(IF value.b THEN 1 ELSE 0))
      [] value.t = "str" ->
            LET low == Lower(value.s)
            IN  IF low \in {"inf", "+inf", "infinity", "+infinity"}
                THEN Ok(Special("inf"))
                ELSE IF low \in {"-inf", "-infinity"} THEN Ok(Special("-inf"))
                ELSE IF low \in {"nan", "+nan", "-nan"} THEN Ok(Special("nan"))
                ELSE PyFloat(value.s)
      [] OTHER -> Raise("TypeError")

\* int(x) of a float: truncation towards zero; OverflowError for an infinity,
\* ValueError for nan
int(x) ==
    IF x.t = "float"
    THEN IF x.f = "nan" THEN Raise("ValueError") ELSE Raise("OverflowError")
    ELSE Ok(Num((IF x.num < 0 THEN -1 ELSE 1) * (Abs(x.num) \div x.den)))

\* bool(value)
bool(value) ==
    CASE value.t = "bool" -> value.b
      [] value.t = "float" -> TRUE
      [] OTHER -> Truthy(value)

\* except (ValueError, TypeError): the default of the target type; any other
\* exception leaves _convert_value
CaughtOrDefault(out, target_type) ==
    IF out.ok \/ out.e \notin {"ValueError", "TypeError"} THEN out
    ELSE Ok(_get_default_value("", [type |-> One(target_type)]))

\* _convert_value (lines 272-302)
_convert_value(value, target_type) ==
    CASE target_type = "string" -> Ok(Str(str(value)))
      [] target_type = "number" -> CaughtOrDefault(float(value), target_type)
      [] target_type = "integer" ->
            CaughtOrDefault(IF float(value).ok THEN int(float(value).v) ELSE float(value),
                   target_type)
      [] target_type = "boolean" -> Ok(PyBool(bool(value)))
      [] target_type = "array" ->
            Ok(IF value.t = "null" THEN EmptyList ELSE List(<<value>>))
      [] target_type = "object" ->
            Ok(IF value.t = "dict" THEN value ELSE EmptyDict)
      [] target_type = "null" -> Ok(Null)
      [] OTHER -> Ok(value)

\* _validate_value_type (lines 214-242): the object after the call, or the
\* exception that left _convert_value
_validate_value_type(obj, prop, prop_schema) ==
    IF "type" \notin DOMAIN prop_schema THEN Ok(obj)
    ELSE LET expected_type == prop_schema.type.types
         IN  IF \E i \in 1..Len(expected_type) :
                    _check_type(obj.d[prop], expected_type[i])
             THEN Ok(obj)
             ELSE LET converted == _convert_value(obj.d[prop], expected_type[1])
                  IN  IF converted.ok THEN Ok(Assign(obj, prop, converted.v))
                      ELSE converted

\* _validate_property_types (lines 201-212), from the i-th property on
RECURSIVE PropertyTypesFrom(_, _, _)
PropertyTypesFrom(report, props, i) ==
    IF i > Len(props) THEN Ok(report)
    ELSE IF props[i][1] \notin DOMAIN report.d
    THEN PropertyTypesFrom(report, props, i + 1)
    ELSE LET fixed == _validate_value_type(report, props[i][1], props[i][2])
         IN  IF fixed.ok THEN PropertyTypesFrom(fixed.v, props, i + 1) ELSE fixed

_validate_property_types(report, schema) ==
    PropertyTypesFrom(report, PropertiesOf(schema), 1)

\* the first loop of _validate_required_properties (lines 179-184)
RECURSIVE TopRequiredFrom(_, _, _)
TopRequiredFrom(report, schema, i) ==
    LET required_props == RequiredOf(schema)
    IN  IF i > Len(required_props) THEN report
        ELSE IF required_props[i] \in DOMAIN report.d
        THEN TopRequiredFrom(report, schema, i + 1)
        ELSE TopRequiredFrom(
                Assign(report, required_props[i],
                       _get_default_value(required_props[i],
                                          PropertySchema(schema, required_props[i]))),
                schema, i + 1)

\* the inner loop of lines 193-199 on one nested object
RECURSIVE NestedRequiredIn(_, _, _)
NestedRequiredIn(nested, prop_schema, i) ==
    LET nested_required == RequiredOf(prop_schema)
    IN  IF i > Len(nested_required) THEN nested
        ELSE IF nested_required[i] \in DOMAIN nested.d
        THEN NestedRequiredIn(nested, prop_schema, i + 1)
        ELSE NestedRequiredIn(
                Assign(nested, nested_required[i],
                       _get_default_value(nested_required[i],
                                          PropertySchema(prop_schema, nested_required[i]))),
                prop_schema, i + 1)

\* the second loop of _validate_required_properties (lines 187-199): the
\* defaults are assigned into report[prop] itself
RECURSIVE NestedRequiredFrom(_, _, _)
NestedRequiredFrom(report, props, i) ==
    IF i > Len(props) THEN report
    ELSE LET prop == props[i][1]
             prop_schema == props[i][2]
         IN  IF /\ IsObjectSchema(prop_schema)
                /\ "required" \in DOMAIN prop_schema
                /\ prop \in DOMAIN report.d
                /\ report.d[prop].t = "dict"
             THEN NestedRequiredFrom(
                     Assign(report, prop, NestedRequiredIn(report.d[prop], prop_schema, 1)),
                     props, i + 1)
             ELSE NestedRequiredFrom(report, props, i + 1)

\* _validate_required_properties (lines 170-199)
_validate_required_properties(report, schema) ==
    NestedRequiredFrom(TopRequiredFrom(report, schema, 1), PropertiesOf(schema), 1)

\* the nested schema built at lines 316-320 and 328-332
NestedSchema(prop_schema) ==
    [type |-> One("object"),
     required |-> RequiredOf(prop_schema),
     properties |-> PropertiesOf(prop_schema)]

\* _validate_and_fix (lines 145-168): the fixed copy, or the exception raised.
\* _validate_nested_objects (lines 304-333) calls it on report[prop] and on the
\* items of an array and drops the copy it returns: nothing of the nested call
\* reaches the report but an exception.
RECURSIVE _validate_and_fix(_, _)
RECURSIVE NestedObjectsFrom(_, _, _)
RECURSIVE ItemsFrom(_, _, _)
ItemsFrom(items, items_schema, i) ==
    IF i > Len(items) THEN Ok(Null)
    ELSE IF items[i].t # "dict" THEN ItemsFrom(items, items_schema, i + 1)
    ELSE LET nested == _validate_and_fix(items[i], NestedSchema(items_schema))
         IN  IF nested.ok THEN ItemsFrom(items, items_schema, i + 1) ELSE nested

NestedObjectsFrom(report, props, i) ==
    IF i > Len(props) THEN Ok(report)
    ELSE LET prop == props[i][1]
             prop_schema == props[i][2]
         IN  IF prop \notin DOMAIN report.d
             THEN NestedObjectsFrom(report, props, i + 1)
             ELSE IF IsObjectSchema(prop_schema) /\ report.d[prop].t = "dict"
             THEN LET nested == _validate_and_fix(report.d[prop], NestedSchema(prop_schema))
                  IN  IF nested.ok THEN NestedObjectsFrom(report, props, i + 1)
                      ELSE nested
             ELSE IF /\ IsArraySchema(prop_schema)
                     /\ report.d[prop].t = "list"
                     /\ "items" \in DOMAIN prop_schema
                     /\ IsObjectSchema(prop_schema.items)
             THEN LET each == ItemsFrom(report.d[prop].l, prop_schema.items, 1)
                  IN  IF each.ok THEN NestedObjectsFrom(report, props, i + 1)
                      ELSE each
             ELSE NestedObjectsFrom(report, props, i + 1)

_validate_nested_objects(report, schema) ==
    NestedObjectsFrom(report, PropertiesOf(schema), 1)

_validate_and_fix(report, schema) ==
    LET typed == _validate_property_types(
                    _validate_required_properties(report, schema), schema)
    IN  IF typed.ok THEN _validate_nested_objects(typed.v, schema) ELSE typed

\* the caller's report after _validate_and_fix: fixed_report = dict(report)
\* copies the top level only, so the nested defaults of lines 197-199 are
\* assigned into the caller's own nested objects
ReportAfter(report, schema) ==
    NestedRequiredFrom(report, PropertiesOf(schema), 1)

\* the validation stamp (lines 116-120); no schema version is configured
ValidationStamp ==
    Dict([validated_at |-> NowIso, schema_version |-> Str("1.0"), is_valid |-> PyTrue])

\* validate (lines 97-123) with the default schema
validate(report) ==
    LET validated_report == _validate_and_fix(report, DEFAULT_SCHEMA)
    IN  IF validated_report.ok
        THEN Ok(Assign(validated_report.v, "_validation", ValidationStamp))
        ELSE validated_report

\* the reports handed to validate: each key absent or one of its choices
Absent == [t |-> "absent"]
PitchIdChoices == {Absent, Str("p1"), Num(7)}
MetadataChoices ==
    {Absent, Null, Str("x"), EmptyDict,
     Dict([generated_at |-> Str("2024-05-01"), analysis_version |-> Str("2")]),
     Dict([generated_at |-> Num(5), analysis_version |-> Str("2")]),
     Dict([generated_at |-> Str("2024-05-01"), analysis_version |-> Str("2"),
           data_sources_used |-> Str("3")])}
DetailsChoices ==
    {Absent, Null, Dict([name |-> Num(5)]),
     Dict([name |-> Str("Acme"), founded_year |-> Num(2019)])}
IrsScoreChoices == {Absent, Num(8), Str("8"), Rat(15, 2), Str("high"), Str("inf")}
CommentsChoices == {Absent, Null, Str("one"), List(<<Str("ok")>>)}

Entry(key, choice) == IF choice = Absent THEN <<>> ELSE (key :> choice)

ValidateReports ==
    { Dict(Entry("pitchId", p) @@ Entry("metadata", m) @@ Entry("details", d)
             @@ Entry("final_irs_score", s) @@ Entry("comments", c)) :
        p \in PitchIdChoices, m \in MetadataChoices, d \in DetailsChoices,
        s \in IrsScoreChoices, c \in CommentsChoices }

\* await validator.validate(report)
Validate ==
    /\ val_out = NotCalled
    /\ val_out' = validate(val_in)
    /\ val_in' = ReportAfter(val_in, DEFAULT_SCHEMA)
    /\ UNCHANGED <<nvars, svars, ovars, cvars, kvars, ivars, tvars, gvars, rvars>>

InitValidate ==
    /\ val_in \in ValidateReports
    /\ val_out = NotCalled
    /\ IdleNorm
    /\ IdleScore
    /\ IdleOrch
    /\ IdleConv
    /\ IdleCheck
    /\ IdleIssues
    /\ IdleTemplate
    /\ IdleConfig
    /\ IdleRuns

NextValidate == Validate

SpecValidate == InitValidate /\ [][NextValidate]_vars

-----------------------------------------------------------------------------
(* Properties of the validated report *)

\* every required field of the schema is present in the object
RequiredPresent(obj, schema) ==
    \A i \in 1..Len(RequiredOf(schema)) : RequiredOf(schema)[i] \in DOMAIN obj.d

\* every present field with a declared type holds a value of that type
TypesHold(obj, schema) ==
    \A i \in 1..Len(PropertiesOf(schema)) :
        LET prop == PropertiesOf(schema)[i][1]
            prop_schema == PropertiesOf(schema)[i][2]
        IN  (prop \in DOMAIN obj.d /\ "type" \in DOMAIN prop_schema) =>
                \E j \in 1..Len(prop_schema.type.types) :
                    _check_type(obj.d[prop], prop_schema.type.types[j])

\* the nested objects the schema describes
NestedConform(obj, schema) ==
    \A i \in 1..Len(PropertiesOf(schema)) :
        LET prop == PropertiesOf(schema)[i][1]
            prop_schema == PropertiesOf(schema)[i][2]
        IN  (prop \in DOMAIN obj.d /\ IsObjectSchema(prop_schema)
               /\ obj.d[prop].t = "dict") =>
                /\ RequiredPresent(obj.d[prop], prop_schema)
                /\ TypesHold(obj.d[prop], prop_schema)

Returned == val_out # NotCalled /\ val_out.ok

\* whenever validate returns, the top level of the report has every required
\* field, each of its declared type
TopLevelConformant ==
    Returned => /\ RequiredPresent(val_out.v, DEFAULT_SCHEMA)
                /\ TypesHold(val_out.v, DEFAULT_SCHEMA)

\* C21: for every report validate returns without raising a report in which
\* every required field of the schema is present, at top level and in nested
\* objects such as metadata, and every present field with a declared type, at
\* top level and inside nested objects, holds a value of that type.
C21_ReturnsConformant ==
    val_out # NotCalled =>
        /\ val_out.ok
        /\ RequiredPresent(val_out.v, DEFAULT_SCHEMA)
        /\ TypesHold(val_out.v, DEFAULT_SCHEMA)
        /\ NestedConform(val_out.v, DEFAULT_SCHEMA)

-----------------------------------------------------------------------------
(* orchestrator.py: runs of _process_pitch_async on one Orchestrator. The     *)
(* dicts self.results has referred to are the objects of heap, self_results   *)
(* is the one it refers to now; a run resumes from an await in one step.      *)

MaxRuns == 2

\* the pitch each run is started on
PitchOf(r) == IF r = 1 THEN "a1" ELSE "b2"

\* the document the fetcher returns for a pitch
StoredDoc(pitch_id) ==
    Dict([clientId |-> Str("client " \o pitch_id),
          extraction |-> Dict([company_name |-> Str(pitch_id)])])

AllAgents == {"mongo_fetcher", "schema_normalizer", "market_analysis", "finance_analysis"}

\* what an awaited provider hands back: a result, or an exception the run
\* records as an error entry
ProviderOutcomes(metric) ==
    { ProviderResult(metric, a) : a \in ProviderAverages } \cup {ErrorResult("boom")}

\* self.results[k] = v: the assignment goes to the dict self.results refers to
\* at this moment
WriteResults(objects, at, k, v) == [objects EXCEPT ![at] = PySet(objects[at], k, v)]

\* lines 91-103 and the call of the fetcher: self.results is bound to a new dict
RunStart(r) ==
    /\ runs[r].pc = "new"
    /\ heap' = Append(heap, InitialResults(runs[r].pitch_id))
    /\ self_results' = Len(heap) + 1
    /\ runs' = [runs EXCEPT ![r].pc = "fetching"]
    /\ UNCHANGED <<nvars, svars, ovars, cvars, kvars, ivars, tvars, gvars, vvars>>

\* lines 109-111 and the call of the normalizer
RunFetched(r) ==
    /\ runs[r].pc = "fetching"
    /\ LET raw == StoredDoc(runs[r].pitch_id)
       IN  /\ heap' = WriteResults(
                         WriteResults(heap, self_results, "clientId", PyGet(raw, "clientId")),
                         self_results, "raw_data", raw)
           /\ runs' = [runs EXCEPT ![r].raw_data = raw, ![r].pc = "normalizing"]
    /\ UNCHANGED <<self_results,
                   nvars, svars, ovars, cvars, kvars, ivars, tvars, gvars, vvars>>

\* lines 113-115: the fetcher raised, the run raises
RunFetchRaised(r) ==
    /\ runs[r].pc = "fetching"
    /\ runs' = [runs EXCEPT ![r].pc = "failed"]
    /\ UNCHANGED <<heap, self_results,
                   nvars, svars, ovars, cvars, kvars, ivars, tvars, gvars, vvars>>

\* lines 124-131 and the call of the market provider
RunNormalized(r) ==
    /\ runs[r].pc = "normalizing"
    /\ LET out == normalize(runs[r].raw_data, DefaultConfig)
       IN  IF out.ok
           THEN /\ heap' = WriteResults(heap, self_results, "normalized_data", out.v)
                /\ runs' = [runs EXCEPT ![r].normalized_data = out.v, ![r].pc = "market"]
           ELSE /\ heap' = heap
                /\ runs' = [runs EXCEPT ![r].normalized_data = runs[r].raw_data,
                                        ![r].pc = "market"]
    /\ UNCHANGED <<self_results,
                   nvars, svars, ovars, cvars, kvars, ivars, tvars, gvars, vvars>>

\* lines 141-146 and the call of the finance provider
RunMarket(r) ==
    /\ runs[r].pc = "market"
    /\ \E market_result \in ProviderOutcomes("tam") :
          runs' = [runs EXCEPT
                     ![r].analysis_results =
                         PySet(runs[r].analysis_results, "MarketAnalysis", market_result),
                     ![r].pc = "finance"]
    /\ UNCHANGED <<heap, self_results,
                   nvars, svars, ovars, cvars, kvars, ivars, tvars, gvars, vvars>>

\* lines 151-183: the finance result, Step 4 and the return of self.results
RunFinance(r) ==
    /\ runs[r].pc = "finance"
    /\ \E finance_result \in ProviderOutcomes("runway") :
          LET results_in == PySet(runs[r].analysis_results, "Finance", finance_result)
              details == _extract_basic_details(runs[r].normalized_data)
          IN  IF details.ok
              THEN /\ heap' = [heap EXCEPT ![self_results] =
                                  Report(heap[self_results], results_in, details.v, AllAgents)]
                   /\ runs' = [runs EXCEPT ![r].analysis_results = results_in,
                                           ![r].returned = self_results,
                                           ![r].pc = "done"]
              ELSE /\ heap' = WriteResults(heap, self_results, "analysis", results_in)
                   /\ runs' = [runs EXCEPT ![r].analysis_results = results_in,
                                           ![r].pc = "failed"]
    /\ UNCHANGED <<self_results,
                   nvars, svars, ovars, cvars, kvars, ivars, tvars, gvars, vvars>>

\* Orchestrator.__init__ (lines 23-36): self.results = {}; no run has started
InitRuns ==
    /\ heap = <<EmptyDict>>
    /\ self_results = 1
    /\ runs = [r \in 1..MaxRuns |->
                 [pc |-> "new", pitch_id |-> PitchOf(r), raw_data |-> Null,
                  normalized_data |-> Null, analysis_results |-> EmptyDict,
                  returned |-> 0]]
    /\ IdleNorm
    /\ IdleScore
    /\ IdleOrch
    /\ IdleConv
    /\ IdleCheck
    /\ IdleIssues
    /\ IdleTemplate
    /\ IdleConfig
    /\ IdleValidate

NextRuns ==
    \E r \in 1..MaxRuns :
        \/ RunStart(r)
        \/ RunFetched(r)
        \/ RunFetchRaised(r)
        \/ RunNormalized(r)
        \/ RunMarket(r)
        \/ RunFinance(r)

SpecRuns == InitRuns /\ [][NextRuns]_vars

-----------------------------------------------------------------------------
(* Properties of interleaved runs *)

\* the report of a finished run had it been the only run of its Orchestrator:
\* its own pitch, its own document and the results its providers handed back
Alone(r) ==
    LET fetched == PySet(PySet(InitialResults(runs[r].pitch_id), "clientId",
                               PyGet(runs[r].raw_data, "clientId")),
                         "raw_data", runs[r].raw_data)
        normalized == IF normalize(runs[r].raw_data, DefaultConfig).ok
                      THEN PySet(fetched, "normalized_data", runs[r].normalized_data)
                      ELSE fetched
    IN  Report(normalized, runs[r].analysis_results,
               _extract_basic_details(runs[r].normalized_data).v, AllAgents)

Finished(r) == runs[r].pc = "done"

\* C22: each run returns a report with the pitchId, clientId and analysis
\* results of its own pitch and nothing written by the other run, the reports
\* of two runs are different objects, and a returned report keeps its value
\* whatever a later run does.
C22_RunsIsolated ==
    /\ \A r \in 1..MaxRuns : Finished(r) => heap[runs[r].returned] = Alone(r)
    /\ \A r1, r2 \in 1..MaxRuns :
          (r1 # r2 /\ Finished(r1) /\ Finished(r2)) =>
              runs[r1].returned # runs[r2].returned
====
